---- MODULE Spec2Model ----
(***************************************************************************)
(* Model of cwltool/workflow.py: the StateRouter (match_types,             *)
(* object_from_state), the WorkflowJob driver (job, try_make_job,          *)
(* receive_output, do_output_callback) and the dot-product scatter         *)
(* (ReceiveScatterOutput, parallel_steps, dotproduct_scatter).             *)
(***************************************************************************)
EXTENDS Integers, Sequences, FiniteSets, TLC

(***************************************************************************)
(* Values: JSON-like trees.  None, scalars and lists.                      *)
(***************************************************************************)
Null == [k |-> "null"]
IntV(n) == [k |-> "int", v |-> n]
ListV(s) == [k |-> "list", items |-> s]
IsList(val) == val.k = "list"

(***************************************************************************)
(* Parameter types: a primitive name, an array descriptor or a union list. *)
(***************************************************************************)
Prim(n) == [k |-> "prim", name |-> n]
ArrayT(t) == [k |-> "array", items |-> t]
UnionT(s) == [k |-> "union", arms |-> s]
IsUnion(t) == t.k = "union"
AnyT == Prim("Any")
IntT == Prim("int")
StrT == Prim("string")

(***************************************************************************)
(* Parameter ids are paths; shortname keeps the last path component.       *)
(***************************************************************************)
shortname(id) == <<id[Len(id)]>>

(***************************************************************************)
(* State map entries: unset (None) or a WorkflowStateItem.                 *)
(***************************************************************************)
Unset == [k |-> "unset"]
WorkflowStateItem(ptype, value, success) ==
    [k |-> "item", parameter |-> [type |-> ptype], value |-> value, success |-> success]

NoLinkMerge == "none"
NoPickValue == "none"

(***************************************************************************)
(* checker.can_assign_src_to_sink (non-strict): Any matches everything,    *)
(* arrays match item-wise, a union matches when one arm matches.           *)
(***************************************************************************)
RECURSIVE can_assign_src_to_sink(_, _)
can_assign_src_to_sink(src, sink) ==
    IF src = AnyT \/ sink = AnyT THEN TRUE
    ELSE IF src.k = "array" /\ sink.k = "array"
         THEN can_assign_src_to_sink(src.items, sink.items)
    ELSE IF src.k = "array" /\ sink.k = "prim" THEN FALSE
    ELSE IF src.k = "prim" /\ sink.k = "array" THEN FALSE
    ELSE IF src.k = "union"
         THEN \E i \in 1..Len(src.arms) : can_assign_src_to_sink(src.arms[i], sink)
    ELSE IF sink.k = "union"
         THEN \E i \in 1..Len(sink.arms) : can_assign_src_to_sink(src, sink.arms[i])
    ELSE src = sink

(***************************************************************************)
(* match_types.  srctype is src.parameter["type"] on entry; the result     *)
(* carries ret ("true", "false" or "raise"), the input object and the      *)
(* value src.parameter["type"] holds when the call is left.                *)
(***************************************************************************)
MTResult(ret, obj, ptype) == [ret |-> ret, obj |-> obj, ptype |-> ptype]

Put(obj, iid, val) == (iid :> val) @@ obj

\* LinkMerge whose merge_nested puts the new value in front of the list
LinkMergeInFront(srctype, value, iid, obj1, linkMerge) ==
    IF linkMerge = "merge_nested"
    THEN MTResult("true", Put(obj1, iid, ListV(<<value>> \o obj1[iid].items)), srctype)
    ELSE IF linkMerge = "merge_flattened"
    THEN IF IsList(value)
         THEN MTResult("true", Put(obj1, iid, ListV(obj1[iid].items \o value.items)), srctype)
         ELSE MTResult("true", Put(obj1, iid, ListV(Append(obj1[iid].items, value))), srctype)
    ELSE MTResult("raise", obj1, srctype)

\* the linkMerge branch, obj1 being inputobj with a list at iid
LinkMerge(srctype, value, iid, obj1, linkMerge) ==
    IF linkMerge = "merge_nested"
    THEN MTResult("true", Put(obj1, iid, ListV(Append(obj1[iid].items, value))), srctype)
    ELSE IF linkMerge = "merge_flattened"
    THEN IF IsList(value)
         THEN MTResult("true", Put(obj1, iid, ListV(obj1[iid].items \o value.items)), srctype)
         ELSE MTResult("true", Put(obj1, iid, ListV(Append(obj1[iid].items, value))), srctype)
    ELSE MTResult("raise", obj1, srctype)

LinkMergeBranch(srctype, value, iid, inputobj, linkMerge) ==
    LinkMerge(srctype, value, iid,
              IF iid \notin DOMAIN inputobj THEN Put(inputobj, iid, ListV(<<>>)) ELSE inputobj,
              linkMerge)

RECURSIVE match_types(_, _, _, _, _, _, _)
RECURSIVE MatchSinkArms(_, _, _, _, _, _, _, _)
RECURSIVE MatchSourceArms(_, _, _, _, _, _, _, _)

match_types(sinktype, srctype, value, iid, inputobj, linkMerge, valueFrom) ==
    IF IsUnion(sinktype)
    THEN MatchSinkArms(sinktype.arms, 1, srctype, value, iid, inputobj, linkMerge, valueFrom)
    ELSE IF IsUnion(srctype)
    THEN MatchSourceArms(sinktype, srctype, 1, value, iid, inputobj, linkMerge, valueFrom)
    ELSE IF linkMerge # NoLinkMerge
    THEN LinkMergeBranch(srctype, value, iid, inputobj, linkMerge)
    ELSE IF valueFrom \/ can_assign_src_to_sink(srctype, sinktype) \/ sinktype = AnyT
    THEN MTResult("true", Put(inputobj, iid, value), srctype)
    ELSE MTResult("false", inputobj, srctype)

\* for st in sinktype: if match_types(st, ...): return True
SinkArm(r, arms, i, value, iid, linkMerge, valueFrom) ==
    IF r.ret = "false"
    THEN MatchSinkArms(arms, i + 1, r.ptype, value, iid, r.obj, linkMerge, valueFrom)
    ELSE r

MatchSinkArms(arms, i, srctype, value, iid, inputobj, linkMerge, valueFrom) ==
    IF i > Len(arms) THEN MTResult("false", inputobj, srctype)
    ELSE SinkArm(match_types(arms[i], srctype, value, iid, inputobj, linkMerge, valueFrom),
                 arms, i, value, iid, linkMerge, valueFrom)

\* for source_type in original_types: src.parameter["type"] = source_type; ...
\* the original type is put back on both returns, not when the call raises
SourceArm(r, sinktype, original_types, i, value, iid, linkMerge, valueFrom) ==
    IF r.ret = "true" THEN MTResult("true", r.obj, original_types)
    ELSE IF r.ret = "raise" THEN r
    ELSE MatchSourceArms(sinktype, original_types, i + 1, value, iid, r.obj, linkMerge,
                         valueFrom)

MatchSourceArms(sinktype, original_types, i, value, iid, inputobj, linkMerge, valueFrom) ==
    IF i > Len(original_types.arms) THEN MTResult("false", inputobj, original_types)
    ELSE SourceArm(match_types(sinktype, original_types.arms[i], value, iid, inputobj,
                               linkMerge, valueFrom),
                   sinktype, original_types, i, value, iid, linkMerge, valueFrom)

(***************************************************************************)
(* object_from_state.  A parameter is a record                             *)
(*   [id, type, hasSource, source, linkMerge, pickValue, hasDefault,       *)
(*    default, valueFrom]                                                  *)
(* and the result carries ret ("ok", "notready" or "raise"), the error,    *)
(* the input object and the state map as the call leaves it.               *)
(***************************************************************************)
OFSResult(ret, err, obj, state) == [ret |-> ret, err |-> err, obj |-> obj, state |-> state]

EmptyObj == [x \in {} |-> Null]

Get(obj, iid) == IF iid \in DOMAIN obj THEN obj[iid] ELSE Null

\* Ready without the test of the status the source was bound with
ReadyAnyStatus(a_state, incomplete) == a_state # Unset

Ready(a_state, incomplete) ==
    a_state # Unset /\ (a_state.success \in {"success", "skipped"} \/ incomplete)

\* inp.get("linkMerge", "merge_nested" if len(connections) > 1 else None)
EffectiveLinkMerge(inp) ==
    IF inp.linkMerge # NoLinkMerge THEN inp.linkMerge
    ELSE IF Len(inp.source) > 1 THEN "merge_nested" ELSE NoLinkMerge

\* for src in connections: ...
RECURSIVE Connections(_, _, _, _, _, _, _)

\* what object_from_state does with the result r of match_types for source c
Matched(r, state1, inp, iid, c, incomplete, connections) ==
    IF r.ret = "raise" THEN OFSResult("raise", "UnknownLinkMerge", r.obj, state1)
    ELSE IF r.ret = "false" THEN OFSResult("raise", "TypeMismatch", r.obj, state1)
    ELSE Connections(state1, inp, iid, c + 1, r.obj, incomplete, connections)

MatchSource(r, state, src, inp, iid, c, incomplete, connections) ==
    Matched(r, [state EXCEPT ![src].parameter.type = r.ptype], inp, iid, c, incomplete,
            connections)

\* Connection that passes over an unset source whatever incomplete is
ConnectionNeverWaits(state, a_state, src, inp, iid, c, inputobj, incomplete, connections) ==
    IF Ready(a_state, incomplete)
    THEN MatchSource(match_types(inp.type, a_state.parameter.type, a_state.value, iid,
                                 inputobj, EffectiveLinkMerge(inp), inp.valueFrom),
                     state, src, inp, iid, c, incomplete, connections)
    ELSE IF src \notin DOMAIN state
    THEN OFSResult("raise", "UnknownSource", inputobj, state)
    ELSE Connections(state, inp, iid, c + 1, inputobj, incomplete, connections)

Connection(state, a_state, src, inp, iid, c, inputobj, incomplete, connections) ==
    IF Ready(a_state, incomplete)
    THEN MatchSource(match_types(inp.type, a_state.parameter.type, a_state.value, iid,
                                 inputobj, EffectiveLinkMerge(inp), inp.valueFrom),
                     state, src, inp, iid, c, incomplete, connections)
    ELSE IF src \notin DOMAIN state
    THEN OFSResult("raise", "UnknownSource", inputobj, state)
    ELSE IF ~incomplete
    THEN OFSResult("notready", "", inputobj, state)
    ELSE Connections(state, inp, iid, c + 1, inputobj, incomplete, connections)

Connections(state, inp, iid, c, inputobj, incomplete, connections) ==
    IF c > Len(connections) THEN OFSResult("ok", "", inputobj, state)
    ELSE Connection(state,
                    IF connections[c] \in DOMAIN state THEN state[connections[c]] ELSE Unset,
                    connections[c], inp, iid, c, inputobj, incomplete, connections)

NonNull(seq) == SelectSeq(seq, LAMBDA val : val # Null)

\* PickFrom whose first_non_null keeps the last non-null element it meets
PickFromLast(inp, iid, inputobj, nn) ==
    IF inp.pickValue = "first_non_null"
    THEN IF Len(nn) = 0 THEN [ret |-> "raise", err |-> "AllNull", obj |-> inputobj]
         ELSE [ret |-> "ok", err |-> "", obj |-> Put(inputobj, iid, nn[Len(nn)])]
    ELSE IF inp.pickValue = "only_non_null"
    THEN IF Len(nn) > 1
         THEN [ret |-> "raise", err |-> "MultipleNonNull", obj |-> Put(inputobj, iid, nn[1])]
         ELSE IF Len(nn) = 0
         THEN [ret |-> "raise", err |-> "AllNull", obj |-> inputobj]
         ELSE [ret |-> "ok", err |-> "", obj |-> Put(inputobj, iid, nn[1])]
    ELSE IF inp.pickValue = "all_non_null"
    THEN [ret |-> "ok", err |-> "", obj |-> Put(inputobj, iid, ListV(nn))]
    ELSE [ret |-> "ok", err |-> "", obj |-> inputobj]

\* the pickValue block over the list seq with non-null elements nn
PickFrom(inp, iid, inputobj, nn) ==
    IF inp.pickValue = "first_non_null"
    THEN IF Len(nn) = 0 THEN [ret |-> "raise", err |-> "AllNull", obj |-> inputobj]
         ELSE [ret |-> "ok", err |-> "", obj |-> Put(inputobj, iid, nn[1])]
    ELSE IF inp.pickValue = "only_non_null"
    THEN IF Len(nn) > 1
         THEN [ret |-> "raise", err |-> "MultipleNonNull", obj |-> Put(inputobj, iid, nn[1])]
         ELSE IF Len(nn) = 0
         THEN [ret |-> "raise", err |-> "AllNull", obj |-> inputobj]
         ELSE [ret |-> "ok", err |-> "", obj |-> Put(inputobj, iid, nn[1])]
    ELSE IF inp.pickValue = "all_non_null"
    THEN [ret |-> "ok", err |-> "", obj |-> Put(inputobj, iid, ListV(nn))]
    ELSE [ret |-> "ok", err |-> "", obj |-> inputobj]

PickValue(inp, iid, inputobj) ==
    IF inp.pickValue # NoPickValue /\ IsList(Get(inputobj, iid))
    THEN PickFrom(inp, iid, inputobj, NonNull(inputobj[iid].items))
    ELSE [ret |-> "ok", err |-> "", obj |-> inputobj]

\* Default that is applied to a missing binding only, not to a null one
DefaultWhenAbsent(inp, iid, inputobj) ==
    IF iid \notin DOMAIN inputobj /\ inp.hasDefault
    THEN Put(inputobj, iid, inp.default) ELSE inputobj

\* the default
Default(inp, iid, inputobj) ==
    IF Get(inputobj, iid) = Null /\ inp.hasDefault
    THEN Put(inputobj, iid, inp.default) ELSE inputobj

\* the unset marker
Marker(inp, iid, inputobj, incomplete) ==
    IF iid \notin DOMAIN inputobj /\ (inp.valueFrom \/ incomplete)
    THEN Put(inputobj, iid, Null) ELSE inputobj

\* the missing-value check
Checked(iid, inputobj) ==
    IF iid \notin DOMAIN inputobj THEN [ret |-> "raise", err |-> "MissingValue", obj |-> inputobj]
    ELSE [ret |-> "ok", err |-> "", obj |-> inputobj]

Defaults(inp, iid, inputobj, incomplete) ==
    Checked(iid, Marker(inp, iid, Default(inp, iid, inputobj), incomplete))

RECURSIVE Parms(_, _, _, _, _, _, _, _)

AfterDefaults(df, state, parms, p, frag_only, supportsMultipleInput, sourceField, incomplete) ==
    IF df.ret # "ok" THEN OFSResult("raise", df.err, df.obj, state)
    ELSE Parms(state, parms, p + 1, df.obj, frag_only, supportsMultipleInput, sourceField,
               incomplete)

AfterPickValue(pv, inp, iid, state, parms, p, frag_only, supportsMultipleInput, sourceField, incomplete) ==
    IF pv.ret # "ok" THEN OFSResult("raise", pv.err, pv.obj, state)
    ELSE AfterDefaults(Defaults(inp, iid, pv.obj, incomplete), state, parms, p, frag_only,
                       supportsMultipleInput, sourceField, incomplete)

AfterConnections(conn, inp, iid, parms, p, frag_only, supportsMultipleInput, sourceField, incomplete) ==
    IF conn.ret # "ok" THEN conn
    ELSE AfterPickValue(PickValue(inp, iid, conn.obj), inp, iid, conn.state, parms, p,
                        frag_only, supportsMultipleInput, sourceField, incomplete)

\* one parameter inp, bound under iid
Parm(state, inp, iid, parms, p, inputobj, frag_only, supportsMultipleInput, sourceField, incomplete) ==
    AfterConnections(
        IF ~inp.hasSource THEN OFSResult("ok", "", inputobj, state)
        ELSE IF Len(inp.source) > 1 /\ ~supportsMultipleInput
        THEN OFSResult("raise", "MultipleInputsUnsupported", inputobj, state)
        ELSE Connections(state, inp, iid, 1, inputobj, incomplete, inp.source),
        inp, iid, parms, p, frag_only, supportsMultipleInput, sourceField, incomplete)

Parms(state, parms, p, inputobj, frag_only, supportsMultipleInput, sourceField, incomplete) ==
    IF p > Len(parms) THEN OFSResult("ok", "", inputobj, state)
    ELSE Parm(state, parms[p], IF frag_only THEN shortname(parms[p].id) ELSE parms[p].id,
              parms, p, inputobj, frag_only, supportsMultipleInput, sourceField, incomplete)

object_from_state(state, parms, frag_only, supportsMultipleInput, sourceField, incomplete) ==
    Parms(state, parms, 1, EmptyObj, frag_only, supportsMultipleInput, sourceField, incomplete)


(***************************************************************************)
(* Workflows.  A workflow is a record [inputs, steps, outputs, multi,       *)
(* stepInputExpr, scatterReq, subworkflowReq], the last four telling which  *)
(* feature requirements it declares; a step is a record [id, inputs,        *)
(* outputs, when, scatter, scatterMethod, class].  Parameters carry the     *)
(* fields object_from_state reads.                                          *)
(***************************************************************************)
Param(id, type, source) ==
    [id |-> id, type |-> type, hasSource |-> (source # <<>>), source |-> source,
     linkMerge |-> NoLinkMerge, pickValue |-> NoPickValue, hasDefault |-> FALSE,
     default |-> Null, valueFrom |-> FALSE, loadContents |-> FALSE]

WfIn(n) == <<"main", n>>
StepIn(n, f) == <<"main", n, f>>
StepOut(n) == <<"main", n, "out">>

\* WorkflowStep.__init__: a scattered input's type is wrapped in an array, and
\* so is every output type (dot-product: one level)
WorkflowStep(n, inputs, outtype, when, scatter) ==
    [id |-> <<"main", n>>,
     inputs |-> [i \in 1..Len(inputs) |->
                   IF \E k \in 1..Len(scatter) : scatter[k] = inputs[i].id
                   THEN [inputs[i] EXCEPT !.type = ArrayT(@)] ELSE inputs[i]],
     outputs |-> << [id |-> StepOut(n),
                     type |-> IF scatter # <<>> THEN ArrayT(outtype) ELSE outtype] >>,
     when |-> when,
     scatter |-> scatter,
     scatterMethod |-> IF scatter = <<>> THEN "none" ELSE "dotproduct",
     class |-> "CommandLineTool"]

PlainStep(n, src) ==
    WorkflowStep(n, <<Param(StepIn(n, "in"), IntT, <<src>>)>>, IntT, FALSE, <<>>)
WhenStep(n, src, outtype) ==
    WorkflowStep(n, <<Param(StepIn(n, "in"), IntT, <<src>>)>>, outtype, TRUE, <<>>)

WfInput(n, type, hasDefault) ==
    [id |-> WfIn(n), type |-> type, hasDefault |-> hasDefault, default |-> IntV(5)]

\* x -> s1 -> s2 -> s3 -> y, steps listed in dependency order
Chain ==
    [inputs |-> <<WfInput("x", IntT, FALSE)>>,
     steps |-> <<PlainStep("s1", WfIn("x")), PlainStep("s2", StepOut("s1")),
                 PlainStep("s3", StepOut("s2"))>>,
     outputs |-> <<Param(WfIn("y"), IntT, <<StepOut("s3")>>)>>,
     multi |-> FALSE, stepInputExpr |-> FALSE,
     scatterReq |-> FALSE, subworkflowReq |-> FALSE]

\* the same chain with the steps listed against the dependency order
Reversed ==
    [inputs |-> <<WfInput("x", IntT, TRUE)>>,
     steps |-> <<PlainStep("s1", StepOut("s2")), PlainStep("s2", WfIn("x"))>>,
     outputs |-> <<Param(WfIn("y"), IntT, <<StepOut("s1")>>)>>,
     multi |-> FALSE, stepInputExpr |-> FALSE,
     scatterReq |-> FALSE, subworkflowReq |-> FALSE]

\* three independent steps, one workflow output each
Independent ==
    [inputs |-> <<WfInput("x", IntT, TRUE)>>,
     steps |-> <<PlainStep("s1", WfIn("x")), PlainStep("s2", WfIn("x")),
                 PlainStep("s3", WfIn("x"))>>,
     outputs |-> <<Param(WfIn("y1"), IntT, <<StepOut("s1")>>),
                   Param(WfIn("y2"), IntT, <<StepOut("s2")>>),
                   Param(WfIn("y3"), IntT, <<StepOut("s3")>>)>>,
     multi |-> FALSE, stepInputExpr |-> FALSE,
     scatterReq |-> FALSE, subworkflowReq |-> FALSE]

\* two conditional branches merged by pickValue: first_non_null, and a step
\* that reads one branch with a default
Conditional ==
    [inputs |-> <<WfInput("x", IntT, FALSE)>>,
     steps |-> <<WhenStep("s1", WfIn("x"), IntT), WhenStep("s2", WfIn("x"), IntT),
                 WorkflowStep("s3", <<[Param(StepIn("s3", "in"), IntT, <<StepOut("s1")>>)
                                        EXCEPT !.hasDefault = TRUE, !.default = IntV(7)]>>,
                              IntT, FALSE, <<>>)>>,
     outputs |-> <<[Param(WfIn("y"), IntT, <<StepOut("s1"), StepOut("s2")>>)
                     EXCEPT !.pickValue = "first_non_null"],
                   Param(WfIn("z"), IntT, <<StepOut("s3")>>)>>,
     multi |-> TRUE, stepInputExpr |-> FALSE,
     scatterReq |-> FALSE, subworkflowReq |-> FALSE]

\* a conditional dot-product scatter over two arrays, and a consumer
Scatter ==
    [inputs |-> <<WfInput("a", ArrayT(IntT), FALSE), WfInput("b", ArrayT(IntT), FALSE)>>,
     steps |-> <<WorkflowStep("s1", <<Param(StepIn("s1", "a"), IntT, <<WfIn("a")>>),
                                      Param(StepIn("s1", "b"), IntT, <<WfIn("b")>>)>>,
                              IntT, TRUE, <<StepIn("s1", "a"), StepIn("s1", "b")>>),
                 WorkflowStep("s2", <<Param(StepIn("s2", "in"), ArrayT(IntT), <<StepOut("s1")>>)>>,
                              IntT, FALSE, <<>>)>>,
     outputs |-> <<Param(WfIn("y"), IntT, <<StepOut("s2")>>),
                   Param(WfIn("z"), ArrayT(IntT), <<StepOut("s1")>>)>>,
     multi |-> FALSE, stepInputExpr |-> FALSE,
     scatterReq |-> TRUE, subworkflowReq |-> FALSE]

\* a step that asks for loadContents on a value that is no File, a scatter
\* over the output of a conditional step, and an independent step
Unhandled ==
    [inputs |-> <<WfInput("x", IntT, FALSE)>>,
     steps |-> <<WorkflowStep("s1", <<[Param(StepIn("s1", "in"), IntT, <<WfIn("x")>>)
                                        EXCEPT !.loadContents = TRUE]>>, IntT, FALSE, <<>>),
                 WhenStep("s2", WfIn("x"), ArrayT(IntT)),
                 WorkflowStep("s3", <<Param(StepIn("s3", "in"), IntT, <<StepOut("s2")>>)>>,
                              IntT, FALSE, <<StepIn("s3", "in")>>)>>,
     outputs |-> <<Param(WfIn("y"), IntT, <<StepOut("s1")>>),
                   Param(WfIn("z"), ArrayT(IntT), <<StepOut("s3")>>)>>,
     multi |-> FALSE, stepInputExpr |-> FALSE,
     scatterReq |-> TRUE, subworkflowReq |-> FALSE]

\* a conditional scatter over one array as the only step, with a second
\* input that is not scattered
Gather ==
    [inputs |-> <<WfInput("a", ArrayT(IntT), FALSE), WfInput("x", IntT, TRUE)>>,
     steps |-> <<WorkflowStep("s1", <<Param(StepIn("s1", "a"), IntT, <<WfIn("a")>>),
                                      Param(StepIn("s1", "c"), IntT, <<WfIn("x")>>)>>,
                              IntT, TRUE, <<StepIn("s1", "a")>>)>>,
     outputs |-> <<Param(WfIn("y"), ArrayT(IntT), <<StepOut("s1")>>)>>,
     multi |-> FALSE, stepInputExpr |-> FALSE,
     scatterReq |-> TRUE, subworkflowReq |-> FALSE]

\* a step input with valueFrom and a step input with two sources, in a
\* workflow that declares neither StepInputExpressionRequirement nor
\* MultipleInputFeatureRequirement
Undeclared ==
    [inputs |-> <<WfInput("x", IntT, FALSE)>>,
     steps |-> <<PlainStep("s1", WfIn("x")),
                 WorkflowStep("s2", <<[Param(StepIn("s2", "in"), IntT, <<StepOut("s1")>>)
                                        EXCEPT !.valueFrom = TRUE]>>, IntT, FALSE, <<>>),
                 WorkflowStep("s3", <<Param(StepIn("s3", "in"), IntT,
                                            <<StepOut("s1"), WfIn("x")>>)>>,
                              IntT, FALSE, <<>>)>>,
     outputs |-> <<Param(WfIn("y"), IntT, <<StepOut("s1")>>)>>,
     multi |-> FALSE, stepInputExpr |-> FALSE,
     scatterReq |-> FALSE, subworkflowReq |-> FALSE]

\* Gather without ScatterFeatureRequirement
NoScatterReq == [Gather EXCEPT !.scatterReq = FALSE]

\* Chain with a nested workflow as its second step, without
\* SubworkflowFeatureRequirement
NoSubworkflowReq == [Chain EXCEPT !.steps[2].class = "Workflow"]

\* a step with two declared outputs, the first of which feeds a second step
TwoOutputs ==
    [inputs |-> <<WfInput("x", IntT, FALSE)>>,
     steps |-> <<[PlainStep("s1", WfIn("x"))
                    EXCEPT !.outputs = <<[id |-> StepOut("s1"), type |-> IntT],
                                         [id |-> <<"main", "s1", "out2">>, type |-> IntT]>>],
                 PlainStep("s2", StepOut("s1"))>>,
     outputs |-> <<Param(WfIn("y"), IntT, <<StepOut("s2")>>),
                   Param(WfIn("z"), IntT, <<<<"main", "s1", "out2">>>>)>>,
     multi |-> FALSE, stepInputExpr |-> FALSE,
     scatterReq |-> FALSE, subworkflowReq |-> FALSE]

WorkflowNames ==
    {"Chain", "Reversed", "Independent", "Conditional", "Scatter", "Unhandled", "Gather",
     "Undeclared", "NoScatterReq", "NoSubworkflowReq", "TwoOutputs"}

Workflows ==
    [n \in WorkflowNames |->
        CASE n = "Chain" -> Chain
          [] n = "Reversed" -> Reversed
          [] n = "Independent" -> Independent
          [] n = "Conditional" -> Conditional
          [] n = "Scatter" -> Scatter
          [] n = "Unhandled" -> Unhandled
          [] n = "Gather" -> Gather
          [] n = "Undeclared" -> Undeclared
          [] n = "NoScatterReq" -> NoScatterReq
          [] n = "NoSubworkflowReq" -> NoSubworkflowReq
          [] n = "TwoOutputs" -> TwoOutputs]

\* the requirement checks of WorkflowStep.__init__, and Workflow.__init__
\* which makes every step: "raise" is the WorkflowException that ends the
\* construction
WorkflowStepInit(w, step) ==
    IF step.class = "Workflow" /\ ~w.subworkflowReq THEN "raise"
    ELSE IF step.scatter # <<>> /\ ~w.scatterReq THEN "raise"
    ELSE "ok"

WorkflowInit(w) ==
    IF \E t \in 1..Len(w.steps) : WorkflowStepInit(w, w.steps[t]) = "raise" THEN "raise"
    ELSE "ok"

\* the workflows whose construction succeeds: only these can be run
Constructed == { n \in WorkflowNames : WorkflowInit(Workflows[n]) = "ok" }

MaxShards == 2

\* arrays [1], [1, 2], ... up to MaxShards elements, and the empty array
ArrayOfLen(n) == ListV([i \in 1..n |-> IntV(i)])

\* the job orders a workflow is run with: each input given or left out
JobOrders(w) ==
    LET ids == { shortname(w.inputs[i].id) : i \in 1..Len(w.inputs) }
        typeOf(sid) == (CHOOSE i \in 1..Len(w.inputs) : shortname(w.inputs[i].id) = sid)
        vals(sid) == IF w.inputs[typeOf(sid)].type = IntT THEN {IntV(1)}
                     ELSE { ArrayOfLen(n) : n \in 0..MaxShards }
    IN  UNION { { jo \in [given -> UNION { vals(sid) : sid \in given }] :
                    \A sid \in given : jo[sid] \in vals(sid) } : given \in SUBSET ids }

(***************************************************************************)
(* WorkflowJob.  wfname, joborder and on_error are the arguments of a run; *)
(* the rest is the state of the WorkflowJob object, of its steps           *)
(* (WorkflowJobStep), of the scatter collectors and of the job generator.  *)
(* order is self.steps as random.shuffle left it.  callbacks, writes,       *)
(* stepStatus, cannot_make and whenval record what the run did: the        *)
(* invocations of the final output callback, the number of writes of each  *)
(* state entry, the status each step last completed with, the steps whose  *)
(* job the driver could not make (WorkflowException) and the values the    *)
(* when expression of each step that is not scattered evaluated to.        *)
(* reported is, per step, what the job last run for it handed to its       *)
(* output callback: its status and the fields of its output object.        *)
(* Each record of callbacks holds the arguments of the invocation and the  *)
(* write counts of the state entries at that moment.                       *)
(***************************************************************************)
VARIABLES wfname, joborder, on_error, order,
          state, processStatus, did_callback, made_progress,
          submitted, completed, iterable, gens, rcs,
          pc, cur, ncompleted, inflight,
          callbacks, writes, stepStatus, cannot_make, whenval, reported

\* the variables of the StateRouter run on its own (SpecRouter below)
VARIABLES rstate, rstate0, rparm, rmode, rmulti, rcalls

rvars == <<rstate, rstate0, rparm, rmode, rmulti, rcalls>>

\* the variables of a cross-product scatter run on its own (SpecCross below)
VARIABLES xmethod, xkeys, xjoborder, xon_error, xrc, xgen, xcalls, xdone, xpc, xinflight

xvars == <<xmethod, xkeys, xjoborder, xon_error, xrc, xgen, xcalls, xdone, xpc, xinflight>>

dvars == <<wfname, joborder, on_error, order, state, processStatus, did_callback,
           made_progress, submitted, completed, iterable, gens, rcs, pc, cur, ncompleted,
           inflight, callbacks, writes, stepStatus, cannot_make, whenval, reported>>

Wf == Workflows[wfname]
Steps == 1..Len(Wf.steps)
NoJob == [k |-> "nojob"]
NoRC == [k |-> "norc"]

\* the WorkflowJob object and what its callbacks touch, as one record
WJ ==
    [state |-> state, processStatus |-> processStatus, did_callback |-> did_callback,
     made_progress |-> made_progress, completed |-> completed, iterable |-> iterable,
     callbacks |-> callbacks, writes |-> writes, stepStatus |-> stepStatus,
     cannot_make |-> cannot_make, whenval |-> whenval]

Commit(W) ==
    /\ state' = W.state
    /\ processStatus' = W.processStatus
    /\ did_callback' = W.did_callback
    /\ made_progress' = W.made_progress
    /\ completed' = W.completed
    /\ iterable' = W.iterable
    /\ callbacks' = W.callbacks
    /\ writes' = W.writes
    /\ stepStatus' = W.stepStatus
    /\ cannot_make' = W.cannot_make
    /\ whenval' = W.whenval

\* WorkflowJob.do_output_callback, r being what object_from_state returned
\* for the workflow outputs
FinalCallback(W, r, ps) ==
    [W EXCEPT !.state = r.state,
              !.processStatus = ps,
              !.did_callback = TRUE,
              !.callbacks = Append(@, [wo |-> IF r.ret = "raise"
                                              THEN [isNone |-> TRUE, obj |-> EmptyObj]
                                              ELSE [isNone |-> FALSE, obj |-> r.obj],
                                       status |-> ps,
                                       writes |-> W.writes])]

\* CollectOutputs without the escalation of a collection error
CollectOutputsKeepStatus(W, r) == FinalCallback(W, r, W.processStatus)

CollectOutputs(W, r) ==
    FinalCallback(W, r, IF r.ret = "raise" THEN "permanentFail" ELSE W.processStatus)

do_output_callback(W) ==
    CollectOutputs(W, object_from_state(W.state, Wf.outputs, TRUE, Wf.multi,
                                        "outputSource", TRUE))

\* the loop of receive_output over outputparms: a present id is bound with
\* the status as it stands, a missing one turns the status to permanentFail
RECURSIVE BindOutputs(_, _, _, _)
BindOutputs(acc, outputparms, i, jobout) ==
    IF i > Len(outputparms) THEN acc
    ELSE LET o == outputparms[i]
         IN  IF o.id \in DOMAIN jobout
             THEN BindOutputs(
                    [acc EXCEPT !.state[o.id] = WorkflowStateItem(o.type, jobout[o.id], acc.status),
                                !.writes[o.id] = @ + 1],
                    outputparms, i + 1, jobout)
             ELSE BindOutputs([acc EXCEPT !.status = "permanentFail"], outputparms, i + 1, jobout)

AllCompleted(W) == \A t \in Steps : W.completed[t]

\* WorkflowJob.receive_output, b being what the loop over outputparms left
Completed(W1) == IF AllCompleted(W1) THEN do_output_callback(W1) ELSE W1

\* Bound with the step's failure status written over permanentFail
BoundLastStatus(W, s, b) ==
    Completed([W EXCEPT !.state = b.state,
                        !.writes = b.writes,
                        !.processStatus = IF b.status \notin {"success", "skipped"}
                                          THEN b.status ELSE @,
                        !.completed[s] = TRUE,
                        !.iterable[s] = "none",
                        !.made_progress = TRUE,
                        !.stepStatus[s] = b.status])

Bound(W, s, b) ==
    Completed([W EXCEPT !.state = b.state,
                        !.writes = b.writes,
                        !.processStatus =
                            IF b.status \notin {"success", "skipped"} /\ @ # "permanentFail"
                            THEN b.status ELSE @,
                        !.completed[s] = TRUE,
                        !.iterable[s] = "none",
                        !.made_progress = TRUE,
                        !.stepStatus[s] = b.status])

receive_output(W, s, jobout, status) ==
    Bound(W, s, BindOutputs([state |-> W.state, writes |-> W.writes, status |-> status],
                            Wf.steps[s].outputs, 1, jobout))

\* StepReceiveOutput that hands the job's status on as it came
StepReceiveOutputKeepsStatus(s, jobout, status) ==
    LET outs == Wf.steps[s].outputs
        have == { i \in 1..Len(outs) : shortname(outs[i].id) \in DOMAIN jobout }
    IN  [output |-> [id \in { outs[i].id : i \in have } |-> jobout[shortname(id)]],
         status |-> status]

\* WorkflowStep.receive_output: the tool's output, keyed by short names, is
\* re-keyed by output id; a missing field turns the status to permanentFail
StepReceiveOutput(s, jobout, status) ==
    LET outs == Wf.steps[s].outputs
        have == { i \in 1..Len(outs) : shortname(outs[i].id) \in DOMAIN jobout }
    IN  [output |-> [id \in { outs[i].id : i \in have } |-> jobout[shortname(id)]],
         status |-> IF have = 1..Len(outs) THEN status ELSE "permanentFail"]

(***************************************************************************)
(* ReceiveScatterOutput.  A collector is a record [dest, completed,        *)
(* processStatus, total, steps, joborder, keys, calls]; steps holds, per   *)
(* shard, "fresh" (a job generator not started), "raise" (one whose first  *)
(* pull raises WorkflowException), "spent" (exhausted) or "none" (None);   *)
(* calls counts the invocations of its output callback.  The operators     *)
(* work on a pair [R, W] of the collector and the WorkflowJob record,      *)
(* because the collector's output callback is WorkflowJob.receive_output.  *)
(***************************************************************************)
ReceiveScatterOutput(dest, total, jo, keys) ==
    [k |-> "rc", dest |-> dest, completed |-> 0, processStatus |-> "success",
     total |-> total, steps |-> <<>>, joborder |-> jo, keys |-> keys, calls |-> 0]

ScatterCallback(R, W, s) ==
    [R |-> [R EXCEPT !.calls = @ + 1],
     W |-> receive_output(W, s, [key \in DOMAIN R.dest |-> ListV(R.dest[key])],
                          R.processStatus)]

Counted(R1, W, s) ==
    IF R1.completed = R1.total THEN ScatterCallback(R1, W, s) ELSE [R |-> R1, W |-> W]

receive_scatter_output(RW, s, index, jobout, status) ==
    Counted([RW.R EXCEPT
               !.dest = [key \in DOMAIN @ |->
                           IF key \in DOMAIN jobout
                           THEN [@[key] EXCEPT ![index] = jobout[key]]
                           ELSE @[key]],
               !.steps = IF @ # <<>> THEN [@ EXCEPT ![index] = "none"] ELSE @,
               !.processStatus = IF status # "success" /\ @ # "permanentFail"
                                 THEN status ELSE @,
               !.completed = @ + 1],
            RW.W, s)

setTotal(RW, s, total, steps) ==
    Counted([RW.R EXCEPT !.total = total, !.steps = steps], RW.W, s)

(***************************************************************************)
(* parallel_steps, from its loop head to its next yield or to its end.     *)
(* kind is "job" (with the shard index), "none" (the stall) or "stop".     *)
(***************************************************************************)
PSResult(kind, index, RW) == [kind |-> kind, index |-> index, R |-> RW.R, W |-> RW.W]

ScatterStop(R) == on_error = "stop" /\ R.processStatus \notin {"success", "skipped"}

RECURSIVE ScanShards(_, _, _)

ScanShard(RW, R, s, index) ==
    IF index > Len(R.steps) \/ ScatterStop(R)
    THEN IF R.completed < R.total THEN PSResult("none", 0, RW)
         ELSE PSResult("stop", 0, RW)
    ELSE IF R.steps[index] = "fresh"
    THEN PSResult("job", index, [RW EXCEPT !.R.steps[index] = "spent"])
    ELSE IF R.steps[index] = "raise"
    THEN ScanShards(receive_scatter_output([RW EXCEPT !.R.steps[index] = "spent"],
                                           s, index, EmptyObj, "permanentFail"),
                    s, index + 1)
    ELSE ScanShards(RW, s, index + 1)

ScanShards(RW, s, index) == ScanShard(RW, RW.R, s, index)

parallel_steps(RW, s) ==
    IF RW.R.completed < RW.R.total THEN ScanShards(RW, s, 1)
    ELSE PSResult("stop", 0, RW)

(***************************************************************************)
(* dotproduct_scatter.  plan gives, per shard, what the post-scatter hook  *)
(* and the inner process do: "run", "skip" (when is false), "whenerr"      *)
(* (when is neither true nor false) or "raise" (the inner job generator    *)
(* raises WorkflowException).                                              *)
(***************************************************************************)
\* ShardInput that takes the element of the first scatter key only
ShardInputFirstKey(jo, keys, index) ==
    [key \in DOMAIN jo |-> IF keys[1] = key THEN jo[key].items[index] ELSE jo[key]]

ShardInput(jo, keys, index) ==
    [key \in DOMAIN jo |->
        IF \E n \in 1..Len(keys) : keys[n] = key THEN jo[key].items[index] ELSE jo[key]]

RECURSIVE MakeShards(_, _, _, _, _, _)
MakeShards(RW, s, index, jobl, steps, plan) ==
    IF index > jobl THEN [ret |-> "ok", RW |-> RW, steps |-> steps]
    ELSE IF plan[index] = "whenerr" THEN [ret |-> "raise", RW |-> RW, steps |-> steps]
    ELSE IF plan[index] = "skip"
    THEN MakeShards(receive_scatter_output(RW, s, index, EmptyObj, "skipped"),
                    s, index + 1, jobl, Append(steps, "none"), plan)
    ELSE MakeShards(RW, s, index + 1, jobl,
                    Append(steps, IF plan[index] = "raise" THEN "raise" ELSE "fresh"), plan)

ShardsMade(m, s, jobl) ==
    IF m.ret = "raise" THEN [ret |-> "raise", RW |-> [R |-> NoRC, W |-> m.RW.W]]
    ELSE [ret |-> "ok", RW |-> setTotal(m.RW, s, jobl, m.steps)]

DotProduct(W, s, jo, keys, plan, jobl, outs) ==
    IF \E n \in 1..Len(keys) : Len(jo[keys[n]].items) # jobl
    THEN [ret |-> "raise", RW |-> [R |-> NoRC, W |-> W]]
    ELSE ShardsMade(
           MakeShards([R |-> ReceiveScatterOutput(
                                [id \in { outs[i].id : i \in 1..Len(outs) } |->
                                    [n \in 1..jobl |-> Null]],
                                jobl, jo, keys),
                       W |-> W],
                      s, 1, jobl, <<>>, plan),
           s, jobl)

dotproduct_scatter(W, s, jo, keys, plan) ==
    DotProduct(W, s, jo, keys, plan, Len(jo[keys[1]].items), Wf.steps[s].outputs)

(***************************************************************************)
(* The inner process.  A job carries its step, its shard index (0 for a    *)
(* step that is not scattered) and its input object; the tool's output is  *)
(* one more than the sum of the numbers in its input, as an array when the *)
(* output is declared an array.                                            *)
(***************************************************************************)
Job(s, index, input) == [k |-> "job", step |-> s, index |-> index, input |-> input]

RECURSIVE SumSeq(_)
RECURSIVE SumValue(_)
SumValue(val) ==
    IF val.k = "int" THEN val.v
    ELSE IF val.k = "list" THEN SumSeq(val.items)
    ELSE 0
SumSeq(seq) == IF seq = <<>> THEN 0 ELSE SumValue(Head(seq)) + SumSeq(Tail(seq))

RECURSIVE SumObj(_, _)
SumObj(obj, keys) ==
    IF keys = {} THEN 0
    ELSE LET key == CHOOSE x \in keys : TRUE
         IN  SumValue(obj[key]) + SumObj(obj, keys \ {key})

\* the tool's output object, keyed by short names: its i-th output is i plus
\* the sum of its inputs
ToolOutput(s, input) ==
    LET outs == Wf.steps[s].outputs
        \* a scattered step's declared type is the array of the tool's type
        t(o) == IF Wf.steps[s].scatter # <<>> THEN o.type.items ELSE o.type
        n(i) == IntV(i + SumObj(input, DOMAIN input))
    IN  [f \in { shortname(outs[i].id) : i \in 1..Len(outs) } |->
            LET i == CHOOSE j \in 1..Len(outs) : shortname(outs[j].id) = f
            IN  IF t(outs[i]).k = "array" THEN ListV(<<n(i)>>) ELSE n(i)]

(***************************************************************************)
(* WorkflowJob.try_make_job, from its start to its first yield or its end. *)
(* plan is what the collaborators do for this step: plan.when is the value *)
(* of the when expression, plan.tool is "job" or "raise" (the inner job    *)
(* generator raises WorkflowException), plan.shards is the scatter plan.   *)
(* kind is "job", "none", "stop" (the generator ended) or "raise"          *)
(* (WorkflowException); sub is step.submitted and gen the generator's      *)
(* state when the call is left.                                            *)
(***************************************************************************)
TMJResult(kind, W, R, sub, gen, job) ==
    [kind |-> kind, W |-> W, R |-> R, sub |-> sub, gen |-> gen, job |-> job]

\* UnhandledException that marks the step completed and leaves processStatus
UnhandledExceptionKeepsStatus(W, s, R) ==
    TMJResult("stop",
              [W EXCEPT !.completed[s] = TRUE, !.stepStatus[s] = "exception"],
              R, FALSE, "done", NoJob)

\* except Exception: processStatus = "permanentFail"; step.completed = True
UnhandledException(W, s, R) ==
    TMJResult("stop",
              [W EXCEPT !.processStatus = "permanentFail", !.completed[s] = TRUE,
                        !.stepStatus[s] = "exception"],
              R, FALSE, "done", NoJob)

FromScatter(ps, s) ==
    TMJResult(ps.kind, ps.W, ps.R, TRUE,
              IF ps.kind = "stop" THEN "done" ELSE "scatter",
              IF ps.kind = "job"
              THEN Job(s, ps.index, ShardInput(ps.R.joborder, ps.R.keys, ps.index))
              ELSE NoJob)

FromDotProduct(d, s, R) ==
    IF d.ret = "raise" THEN TMJResult("raise", d.RW.W, R, FALSE, "done", NoJob)
    ELSE FromScatter(parallel_steps(d.RW, s), s)

\* SkipStep with the outputs bound as if the step had run
SkipStepAsSuccess(W1, s, step) ==
    TMJResult("stop",
              [receive_output(W1, s,
                              [id \in { step.outputs[i].id : i \in 1..Len(step.outputs) } |-> Null],
                              "success")
                 EXCEPT !.completed[s] = TRUE],
              NoRC, TRUE, "done", NoJob)

\* callback({k["id"]: None for k in outputparms}, "skipped"); step.completed = True
SkipStep(W1, s, step) ==
    TMJResult("stop",
              [receive_output(W1, s,
                              [id \in { step.outputs[i].id : i \in 1..Len(step.outputs) } |-> Null],
                              "skipped")
                 EXCEPT !.completed[s] = TRUE],
              NoRC, TRUE, "done", NoJob)

\* inputobj = postScatterEval(inputobj) of a step that is not scattered, and
\* what try_make_job does with its result; W2 records the value of when
postScatterEval(W2, s, R, plan, step, inputobj) ==
    IF step.when /\ plan.when = "other"
    THEN TMJResult("raise", W2, R, FALSE, "done", NoJob)
    ELSE IF step.when /\ plan.when = "false"
    THEN SkipStep(W2, s, step)
    ELSE IF plan.tool = "raise"
    THEN TMJResult("raise", W2, R, TRUE, "done", NoJob)
    ELSE TMJResult("job", W2, R, TRUE, "plain", Job(s, 0, inputobj))

\* the body of try_make_job once object_from_state has returned an input object
Dispatch(W1, s, R, plan, step, inputobj) ==
    IF (\E i \in 1..Len(step.inputs) : step.inputs[i].valueFrom) /\ ~Wf.stepInputExpr
    THEN TMJResult("raise", W1, R, FALSE, "done", NoJob)
    ELSE IF step.scatter # <<>>
    THEN IF step.scatterMethod = "none" /\ Len(step.scatter) # 1
         THEN TMJResult("raise", W1, R, FALSE, "done", NoJob)
         \* len(inputobj[s]) of a value that is no array: TypeError
         ELSE IF \E n \in 1..Len(step.scatter) : ~IsList(inputobj[step.scatter[n]])
         THEN UnhandledException(W1, s, R)
         ELSE FromDotProduct(dotproduct_scatter(W1, s, inputobj, step.scatter, plan.shards),
                             s, R)
    \* v.get("contents") of a value that is no File object: AttributeError
    ELSE IF \E i \in 1..Len(step.inputs) : step.inputs[i].loadContents
    THEN UnhandledException(W1, s, R)
    ELSE postScatterEval([W1 EXCEPT !.whenval[s] = IF step.when THEN Append(@, plan.when)
                                                   ELSE @],
                         s, R, plan, step, inputobj)

\* the body of try_make_job once object_from_state has returned r
Resolved(W1, s, R, plan, r) ==
    IF r.ret = "raise" THEN TMJResult("raise", W1, R, FALSE, "done", NoJob)
    ELSE IF r.ret = "notready" THEN TMJResult("stop", W1, R, FALSE, "done", NoJob)
    ELSE Dispatch(W1, s, R, plan, Wf.steps[s], r.obj)

WithState(W, s, R, plan, r) == Resolved([W EXCEPT !.state = r.state], s, R, plan, r)

try_make_job(W, s, R, plan) ==
    IF submitted[s] THEN TMJResult("stop", W, R, TRUE, "done", NoJob)
    ELSE WithState(W, s, R, plan,
                   object_from_state(W.state, Wf.steps[s].inputs, FALSE, Wf.multi,
                                     "source", FALSE))

\* next(step.iterable) on the generator the driver's for loop holds
NextOfIterable(W, s, plan) ==
    IF gens[s] = "fresh" THEN try_make_job(W, s, rcs[s], plan)
    ELSE IF gens[s] = "scatter" THEN FromScatter(parallel_steps([R |-> rcs[s], W |-> W], s), s)
    ELSE TMJResult("stop", W, rcs[s], submitted[s], "done", NoJob)

ShardPlans == {"run", "skip", "whenerr", "raise"}

Plans(s) ==
    { [when |-> w, tool |-> t, shards |-> sh] :
        w \in IF Wf.steps[s].when /\ Wf.steps[s].scatter = <<>>
              THEN {"true", "false", "other"} ELSE {"true"},
        t \in IF Wf.steps[s].scatter = <<>> THEN {"job", "raise"} ELSE {"job"},
        sh \in IF Wf.steps[s].scatter = <<>> THEN { <<>> }
               ELSE [1..MaxShards -> IF Wf.steps[s].when THEN ShardPlans
                                      ELSE {"run", "raise"}] }

(***************************************************************************)
(* WorkflowJob.job: the generator, one action per stretch of its body.     *)
(* pc is where the generator stands: "start" (not yet pulled), "while"     *)
(* (the loop head), "for" (the head of the loop over the steps, at step    *)
(* cur), "iter" (about to pull step cur's iterable), "yielded" (suspended  *)
(* at yield newjob), "stalled" (suspended at yield None), "exit" (after    *)
(* the loop), "done" (exhausted) or "raised" (left by WorkflowException).  *)
(***************************************************************************)
OutputIds ==
    UNION { { Wf.steps[t].outputs[i].id : i \in 1..Len(Wf.steps[t].outputs) } : t \in Steps }

JobStatuses == {"success", "permanentFail", "temporaryFail"}

RouterIdle ==
    /\ rstate = EmptyObj
    /\ rstate0 = EmptyObj
    /\ rparm = Param(<<"idle">>, AnyT, <<>>)
    /\ rmode = "idle"
    /\ rmulti = FALSE
    /\ rcalls = <<>>

CrossIdle ==
    /\ xmethod = "none"
    /\ xkeys = <<>>
    /\ xjoborder = EmptyObj
    /\ xon_error = "stop"
    /\ xrc = EmptyObj
    /\ xgen = EmptyObj
    /\ xcalls = <<>>
    /\ xdone = {}
    /\ xpc = "idle"
    /\ xinflight = NoJob

DriverInit ==
    /\ wfname \in Constructed
    /\ joborder \in JobOrders(Wf)
    /\ on_error \in {"stop", "continue"}
    /\ order \in Permutations(Steps)
    /\ state = EmptyObj
    /\ processStatus = ""
    /\ did_callback = FALSE
    /\ made_progress = FALSE
    /\ submitted = [t \in Steps |-> FALSE]
    /\ completed = [t \in Steps |-> FALSE]
    /\ iterable = [t \in Steps |-> "none"]
    /\ gens = [t \in Steps |-> "done"]
    /\ rcs = [t \in Steps |-> NoRC]
    /\ pc = "start"
    /\ cur = 0
    /\ ncompleted = 0
    /\ inflight = NoJob
    /\ callbacks = <<>>
    /\ writes = [id \in OutputIds |-> 0]
    /\ stepStatus = [t \in Steps |-> "none"]
    /\ cannot_make = {}
    /\ whenval = [t \in Steps |-> <<>>]
    /\ reported = [t \in Steps |-> NoJob]

Init == DriverInit /\ RouterIdle /\ CrossIdle

\* for index, inp in enumerate(self.tool["inputs"]): ...
RECURSIVE SeedInputs(_, _)

\* SeedInputs with the default tried before the job order
SeedInputsDefaultFirst(st, i) ==
    IF i > Len(Wf.inputs) THEN [ret |-> "ok", state |-> st]
    ELSE LET inp == Wf.inputs[i]
             inp_id == shortname(inp.id)
         IN  IF inp.hasDefault
             THEN SeedInputs(Put(st, inp.id,
                                 WorkflowStateItem(inp.type, inp.default, "success")), i + 1)
             ELSE IF inp_id \in DOMAIN joborder
             THEN SeedInputs(Put(st, inp.id,
                                 WorkflowStateItem(inp.type, joborder[inp_id], "success")), i + 1)
             ELSE [ret |-> "raise", state |-> st]

SeedInputs(st, i) ==
    IF i > Len(Wf.inputs) THEN [ret |-> "ok", state |-> st]
    ELSE LET inp == Wf.inputs[i]
             inp_id == shortname(inp.id)
         IN  IF inp_id \in DOMAIN joborder
             THEN SeedInputs(Put(st, inp.id,
                                 WorkflowStateItem(inp.type, joborder[inp_id], "success")), i + 1)
             ELSE IF inp.hasDefault
             THEN SeedInputs(Put(st, inp.id,
                                 WorkflowStateItem(inp.type, inp.default, "success")), i + 1)
             ELSE [ret |-> "raise", state |-> st]

\* the first pull: the state map is seeded, or the run raises
JobStart ==
    /\ pc = "start"
    /\ \E seed \in { SeedInputs(EmptyObj, 1) } :
           /\ processStatus' = "success"
           /\ IF seed.ret = "raise"
              THEN /\ state' = seed.state
                   /\ pc' = "raised"
              ELSE /\ state' = [id \in OutputIds |-> Unset] @@ seed.state
                   /\ pc' = "while"
    /\ ncompleted' = 0
    /\ UNCHANGED <<wfname, joborder, on_error, order, did_callback, made_progress, submitted,
                   completed, iterable, gens, rcs, cur, inflight, callbacks, writes,
                   stepStatus, cannot_make, whenval, reported>>
    /\ UNCHANGED <<rvars, xvars>>

\* while completed < len(self.steps): self.made_progress = False
WhileHead ==
    /\ pc = "while"
    /\ IF ncompleted < Len(Wf.steps)
       THEN /\ made_progress' = FALSE
            /\ cur' = 1
            /\ pc' = "for"
       ELSE /\ pc' = "exit"
            /\ UNCHANGED <<made_progress, cur>>
    /\ UNCHANGED <<wfname, joborder, on_error, order, state, processStatus, did_callback, submitted,
                   completed, iterable, gens, rcs, ncompleted, inflight, callbacks, writes,
                   stepStatus, cannot_make, whenval, reported>>
    /\ UNCHANGED <<rvars, xvars>>

CountCompleted == Cardinality({ t \in Steps : completed[t] })

\* getdefault(runtimeContext.on_error, "stop") == "stop" and
\* self.processStatus != "success", ps being self.processStatus
\* FailFast that never breaks, and FailFast that breaks whatever on_error is
FailFastNever(ps) == FALSE

FailFastAlways(ps) == ps # "success"

FailFast(ps) == on_error = "stop" /\ ps # "success"

\* AfterFor of a driver that yields None after every pass without progress,
\* whatever processStatus is
AfterForStallsOnFailure ==
    /\ pc = "for"
    /\ \/ cur > Len(Wf.steps)
       \/ FailFast(processStatus)
    /\ ncompleted' = CountCompleted
    /\ pc' = IF ~made_progress /\ CountCompleted < Len(Wf.steps) THEN "stalled" ELSE "while"
    /\ UNCHANGED <<wfname, joborder, on_error, order, state, processStatus, did_callback,
                   made_progress, submitted, completed, iterable, gens, rcs, cur, inflight,
                   callbacks, writes, stepStatus, cannot_make, whenval, reported>>
    /\ UNCHANGED <<rvars, xvars>>

\* AfterFor of a driver that makes one pass over the steps and leaves the loop
AfterForOnePass ==
    /\ pc = "for"
    /\ \/ cur > Len(Wf.steps)
       \/ FailFast(processStatus)
    /\ ncompleted' = CountCompleted
    /\ pc' = "exit"
    /\ UNCHANGED <<wfname, joborder, on_error, order, state, processStatus, did_callback,
                   made_progress, submitted, completed, iterable, gens, rcs, cur, inflight,
                   callbacks, writes, stepStatus, cannot_make, whenval, reported>>
    /\ UNCHANGED <<rvars, xvars>>

\* the end of a pass: completed is recomputed; no progress ends the run on a
\* failure and yields None otherwise
AfterFor ==
    /\ pc = "for"
    /\ \/ cur > Len(Wf.steps)
       \/ FailFast(processStatus)
    /\ ncompleted' = CountCompleted
    /\ pc' = IF ~made_progress /\ CountCompleted < Len(Wf.steps)
             THEN IF processStatus # "success" THEN "exit" ELSE "stalled"
             ELSE "while"
    /\ UNCHANGED <<wfname, joborder, on_error, order, state, processStatus, did_callback,
                   made_progress, submitted, completed, iterable, gens, rcs, cur, inflight,
                   callbacks, writes, stepStatus, cannot_make, whenval, reported>>
    /\ UNCHANGED <<rvars, xvars>>

\* self.steps as random.shuffle left it: the step at position cur of the loop
curstep == order[cur]

\* for step in self.steps: the fail-fast check passed; a step not yet
\* submitted gets a new try_make_job generator
ForStep ==
    /\ pc = "for"
    /\ cur <= Len(Wf.steps)
    /\ ~FailFast(processStatus)
    /\ IF ~submitted[curstep]
       THEN /\ iterable' = [iterable EXCEPT ![curstep] = "gen"]
            /\ gens' = [gens EXCEPT ![curstep] = "fresh"]
            /\ pc' = "iter"
            /\ cur' = cur
       ELSE /\ UNCHANGED <<iterable, gens>>
            /\ IF iterable[curstep] # "none"
               THEN pc' = "iter" /\ cur' = cur
               ELSE pc' = "for" /\ cur' = cur + 1
    /\ UNCHANGED <<wfname, joborder, on_error, order, state, processStatus, did_callback,
                   made_progress, submitted, completed, rcs, ncompleted, inflight, callbacks,
                   writes, stepStatus, cannot_make, whenval, reported>>
    /\ UNCHANGED <<rvars, xvars>>

\* what the driver does with the result res of a pull of step cur's generator
Deliver(res, failfast) ==
    /\ submitted' = [submitted EXCEPT ![curstep] = res.sub]
    /\ rcs' = [rcs EXCEPT ![curstep] = res.R]
    /\ IF res.kind = "raise"
       THEN /\ \E W \in { [res.W EXCEPT !.processStatus = "permanentFail",
                                           !.cannot_make = @ \cup {curstep}] } : Commit(W)
            /\ gens' = [gens EXCEPT ![curstep] = "done"]
            /\ pc' = "for" /\ cur' = cur + 1
            /\ inflight' = NoJob
       ELSE IF res.kind = "job" /\ ~failfast
       THEN /\ \E W \in { [res.W EXCEPT !.made_progress = TRUE] } : Commit(W)
            /\ gens' = [gens EXCEPT ![curstep] = res.gen]
            /\ pc' = "yielded" /\ cur' = cur
            /\ inflight' = res.job
       ELSE /\ Commit(res.W)
            /\ gens' = [gens EXCEPT ![curstep] = res.gen]
            /\ pc' = "for" /\ cur' = cur + 1
            /\ inflight' = NoJob

\* Pulled of a driver that clears step.submitted when the job sequence gives
\* no job
PulledResubmits(res) ==
    Deliver([res EXCEPT !.sub = (res.kind = "job")], FailFast(res.W.processStatus))

Pulled(res) == Deliver(res, FailFast(res.W.processStatus))

\* for newjob in step.iterable: one pull of the step's generator
Iterate ==
    /\ pc = "iter"
    /\ \E plan \in IF gens[curstep] = "fresh" THEN Plans(curstep) ELSE { [when |-> "true"] } :
         \E res \in { NextOfIterable(WJ, curstep, plan) } : Pulled(res)
    /\ UNCHANGED <<wfname, joborder, on_error, order, ncompleted, reported>>
    /\ UNCHANGED <<rvars, xvars>>

ShardDone(rw, s) ==
    /\ Commit(rw.W)
    /\ rcs' = [rcs EXCEPT ![s] = rw.R]

\* the job's output callback: WorkflowStep.receive_output, then the step's
\* callback (WorkflowJob.receive_output, or the collector's for a shard)
JobDone(s, index, sr) ==
    IF index = 0
    THEN /\ \E W \in { receive_output(WJ, s, sr.output, sr.status) } : Commit(W)
         /\ UNCHANGED rcs
    ELSE \E rw \in { receive_scatter_output([R |-> rcs[s], W |-> WJ], s, index, sr.output,
                                            sr.status) } : ShardDone(rw, s)

\* the caller runs the yielded job, which invokes its output callback
RunJob ==
    /\ pc = "yielded"
    /\ inflight # NoJob
    /\ \E status \in JobStatuses, out \in { ToolOutput(inflight.step, inflight.input) } :
         \E have \in SUBSET DOMAIN out :
            /\ \E sr \in { StepReceiveOutput(inflight.step, [f \in have |-> out[f]], status) } :
                  JobDone(inflight.step, inflight.index, sr)
            /\ reported' = [reported EXCEPT ![inflight.step] = [status |-> status, have |-> have]]
    /\ inflight' = NoJob
    /\ UNCHANGED <<wfname, joborder, on_error, order, submitted, gens, pc, cur, ncompleted>>
    /\ UNCHANGED <<rvars, xvars>>

\* the caller pulls the next job
Pull ==
    /\ pc \in {"yielded", "stalled"}
    /\ inflight = NoJob
    /\ pc' = IF pc = "yielded" THEN "iter" ELSE "while"
    /\ UNCHANGED <<wfname, joborder, on_error, order, state, processStatus, did_callback,
                   made_progress, submitted, completed, iterable, gens, rcs, cur, ncompleted,
                   inflight, callbacks, writes, stepStatus, cannot_make, whenval, reported>>
    /\ UNCHANGED <<rvars, xvars>>

\* if not self.did_callback: self.do_output_callback(output_callback)
Finish ==
    /\ pc = "exit"
    /\ \E W \in { IF ~did_callback THEN do_output_callback(WJ) ELSE WJ } : Commit(W)
    /\ pc' = "done"
    /\ UNCHANGED <<wfname, joborder, on_error, order, submitted, gens, rcs, cur, ncompleted,
                   inflight, reported>>
    /\ UNCHANGED <<rvars, xvars>>

Next == JobStart \/ WhileHead \/ ForStep \/ Iterate \/ RunJob \/ Pull \/ AfterFor \/ Finish

vars == <<dvars, rvars, xvars>>

Spec == Init /\ [][Next]_vars

(***************************************************************************)
(* The StateRouter on its own: object_from_state applied to state maps and *)
(* parameters drawn from bounded sets.  The state map is kept as the call  *)
(* leaves it, so a later call sees what an earlier one did to it.          *)
(***************************************************************************)
MaxCalls == 2

SrcA == <<"main", "s1", "out">>
SrcB == <<"main", "s2", "out">>
SrcC == <<"main", "s3", "out">>
SinkId == <<"main", "s4", "in">>

UnionIS == UnionT(<<IntT, StrT>>)
UnionSI == UnionT(<<StrT, IntT>>)

RouterValueStatus ==
    { <<IntV(1), "success">>, <<Null, "skipped">>,
      <<ListV(<<Null, IntV(2)>>), "success">>, <<IntV(1), "permanentFail">> }

RouterEntriesA ==
    {Unset} \cup { WorkflowStateItem(t, vs[1], vs[2]) :
                     t \in {IntT, StrT, UnionIS}, vs \in RouterValueStatus }

RouterEntriesB ==
    {Unset, WorkflowStateItem(IntT, IntV(3), "success"), WorkflowStateItem(IntT, Null, "skipped")}

RouterSources == { <<>>, <<SrcA>>, <<SrcA, SrcB>>, <<SrcC>> }

RouterParms ==
    { [id |-> SinkId, type |-> t, hasSource |-> (src # <<>>), source |-> src,
       linkMerge |-> lm, pickValue |-> pv, hasDefault |-> dv[1], default |-> IntV(9),
       valueFrom |-> dv[2]] :
        t \in {IntT, AnyT, UnionSI},
        src \in RouterSources,
        lm \in {NoLinkMerge, "merge_nested", "merge_flattened", "merge_other"},
        pv \in {NoPickValue, "first_non_null", "only_non_null", "all_non_null"},
        dv \in { <<FALSE, FALSE>>, <<TRUE, FALSE>>, <<FALSE, TRUE>> } }

\* the two ways the driver calls object_from_state: for a step's inputs
\* (source, full ids, incomplete=False) and for the workflow outputs
\* (outputSource, short ids, incomplete=True)
RouterCall(st) ==
    object_from_state(st, <<rparm>>, rmode = "output", rmulti,
                      IF rmode = "output" THEN "outputSource" ELSE "source",
                      rmode = "output")

DriverIdle ==
    /\ wfname = "Chain"
    /\ joborder = EmptyObj
    /\ on_error = "stop"
    /\ order = [t \in Steps |-> t]
    /\ state = EmptyObj
    /\ processStatus = ""
    /\ did_callback = FALSE
    /\ made_progress = FALSE
    /\ submitted = [t \in Steps |-> FALSE]
    /\ completed = [t \in Steps |-> FALSE]
    /\ iterable = [t \in Steps |-> "none"]
    /\ gens = [t \in Steps |-> "done"]
    /\ rcs = [t \in Steps |-> NoRC]
    /\ pc = "idle"
    /\ cur = 0
    /\ ncompleted = 0
    /\ inflight = NoJob
    /\ callbacks = <<>>
    /\ writes = [id \in OutputIds |-> 0]
    /\ stepStatus = [t \in Steps |-> "none"]
    /\ cannot_make = {}
    /\ whenval = [t \in Steps |-> <<>>]
    /\ reported = [t \in Steps |-> NoJob]

RouterInit ==
    /\ rstate \in { (SrcA :> a) @@ (SrcB :> b) : a \in RouterEntriesA, b \in RouterEntriesB }
    /\ rstate0 = rstate
    /\ rparm \in RouterParms
    /\ rmode \in {"step", "output"}
    /\ rmulti \in BOOLEAN
    /\ rcalls = <<>>
    /\ DriverIdle
    /\ CrossIdle

Resolve ==
    /\ Len(rcalls) < MaxCalls
    /\ \E r \in { RouterCall(rstate) } :
           /\ rcalls' = Append(rcalls, [ret |-> r.ret, err |-> r.err,
                                        obj |-> IF r.ret = "ok" THEN r.obj ELSE EmptyObj])
           /\ rstate' = r.state
    /\ UNCHANGED <<rstate0, rparm, rmode, rmulti>>
    /\ UNCHANGED <<dvars, xvars>>

RouterNext == Resolve

SpecRouter == RouterInit /\ [][RouterNext]_vars

(***************************************************************************)
(* Cross-product scatter on its own: nested_crossproduct_scatter and       *)
(* flat_crossproduct_scatter over the scatter keys a and b, with the       *)
(* step's output callback recorded instead of run.  The collectors are     *)
(* kept in a map from paths to collectors: <<>> is the outermost one and   *)
(* <<i>> the one of the nested method made for the i-th element of the     *)
(* first key.  A record X = [rc, gen, calls, done] holds the collectors,   *)
(* the position of each collector's parallel_steps generator (0 at its     *)
(* loop head, i > 0 suspended at the yield for step i, -1 ended), the      *)
(* invocations of the step's output callback, and the leaf shards whose    *)
(* callback has run.  With two keys an inner collector's dest is complete  *)
(* whenever it is handed to the outer one, so copying it models the        *)
(* shared list exactly.                                                    *)
(***************************************************************************)
MaxLeaves == 4

KeyA == StepIn("s1", "a")
KeyB == StepIn("s1", "b")
CrossOut == StepOut("s1")

CrossPlans == {"run", "skip", "whenerr", "raise"}

RECURSIVE CrossLeaves(_, _)
CrossLeaves(jo, keys) ==
    IF keys = <<>> THEN { <<>> }
    ELSE { <<i>> \o rest : i \in 1..Len(jo[keys[1]].items),
                           rest \in CrossLeaves(jo, Tail(keys)) }

\* the inner process: its output tells the elements of a and b it was given
CrossValue(val) == IF val.k = "int" THEN val.v ELSE 0

CrossToolOutput(input) == IntV(10 * CrossValue(input[KeyA]) + CrossValue(input[KeyB]))

\* a step of a collector: a leaf job generator (st is "fresh", "raise" or
\* "spent"; rc and index are the collector and the position its curried
\* callback writes to), a nested parallel_steps generator, or None
LeafStep(st, input, rc, index, leaf) ==
    [k |-> "leaf", st |-> st, input |-> input, rc |-> rc, index |-> index, leaf |-> leaf]

GenStep(path) == [k |-> "gen", path |-> path]

NoStep == [k |-> "none"]

CrossJob(e) == [k |-> "job", input |-> e.input, rc |-> e.rc, index |-> e.index, leaf |-> e.leaf]

DestValue(R) == [key \in DOMAIN R.dest |-> ListV(R.dest[key])]

RECURSIVE cross_receive_scatter_output(_, _, _, _, _)

\* if self.completed == self.total: self.output_callback(self.dest, self.processStatus)
CrossCounted(X, path, R) ==
    IF R.completed # R.total THEN X
    ELSE IF path = <<>>
    THEN [X EXCEPT !.rc[path].calls = @ + 1,
                   !.calls = Append(@, [output |-> DestValue(R), status |-> R.processStatus,
                                        done |-> X.done])]
    ELSE cross_receive_scatter_output([X EXCEPT !.rc[path].calls = @ + 1],
                                      SubSeq(path, 1, Len(path) - 1), path[Len(path)],
                                      DestValue(R), R.processStatus)

CrossCount(X, path) == CrossCounted(X, path, X.rc[path])

\* receive_scatter_output that writes every shard's output at the front
cross_receive_at_front(X, path, index, jobout, status) ==
    CrossCount([X EXCEPT !.rc[path] =
                   [@ EXCEPT
                      !.dest = [key \in DOMAIN @ |->
                                  IF key \in DOMAIN jobout
                                  THEN [@[key] EXCEPT ![1] = jobout[key]]
                                  ELSE @[key]],
                      !.steps = IF @ # <<>> THEN [@ EXCEPT ![index] = NoStep] ELSE @,
                      !.processStatus = IF status # "success" /\ @ # "permanentFail"
                                        THEN status ELSE @,
                      !.completed = @ + 1]],
               path)

cross_receive_scatter_output(X, path, index, jobout, status) ==
    CrossCount([X EXCEPT !.rc[path] =
                   [@ EXCEPT
                      !.dest = [key \in DOMAIN @ |->
                                  IF key \in DOMAIN jobout
                                  THEN [@[key] EXCEPT ![index] = jobout[key]]
                                  ELSE @[key]],
                      !.steps = IF @ # <<>> THEN [@ EXCEPT ![index] = NoStep] ELSE @,
                      !.processStatus = IF status # "success" /\ @ # "permanentFail"
                                        THEN status ELSE @,
                      !.completed = @ + 1]],
               path)

cross_setTotal(X, path, total, steps) ==
    CrossCount([X EXCEPT !.rc[path] = [@ EXCEPT !.total = total, !.steps = steps]], path)

\* the leaf branch of both methods: the post-scatter hook, then the inner
\* job generator or the immediate "skipped" callback
\* LeafMade that leaves a skipped shard out of the collector's count
LeafMadeUncounted(X, path, index, sjob, leaf, plan) ==
    IF plan[leaf] = "skip"
    THEN [X |-> [X EXCEPT !.done = @ \cup {leaf}], step |-> NoStep]
    ELSE [X |-> X,
          step |-> LeafStep(IF plan[leaf] = "raise" THEN "raise" ELSE "fresh",
                            sjob, path, index, leaf)]

LeafMade(X, path, index, sjob, leaf, plan) ==
    IF plan[leaf] = "skip"
    THEN [X |-> cross_receive_scatter_output([X EXCEPT !.done = @ \cup {leaf}],
                                             path, index, EmptyObj, "skipped"),
          step |-> NoStep]
    ELSE [X |-> X,
          step |-> LeafStep(IF plan[leaf] = "raise" THEN "raise" ELSE "fresh",
                            sjob, path, index, leaf)]

ScatterOne(jo, key, index) == [jo EXCEPT ![key] = jo[key].items[index]]

RECURSIVE NestedShards(_, _, _, _, _, _, _)
RECURSIVE nested_crossproduct_scatter(_, _, _, _, _)

NestedLeaf(m, path, jo, keys, index, steps, plan) ==
    NestedShards(m.X, path, jo, keys, index + 1, Append(steps, m.step), plan)

NestedInner(r, path, jo, keys, index, steps, plan) ==
    IF r.ret = "raise" THEN r
    ELSE NestedShards(r.X, path, jo, keys, index + 1,
                      Append(steps, GenStep(Append(path, index))), plan)

NestedShards(X, path, jo, keys, index, steps, plan) ==
    IF index > Len(jo[keys[1]].items)
    THEN [ret |-> "ok",
          X |-> [cross_setTotal(X, path, Len(jo[keys[1]].items), steps)
                   EXCEPT !.gen = Put(@, path, 0)]]
    ELSE IF Len(keys) = 1
    THEN IF plan[Append(path, index)] = "whenerr" THEN [ret |-> "raise", X |-> X]
         ELSE NestedLeaf(LeafMade(X, path, index, ScatterOne(jo, keys[1], index),
                                  Append(path, index), plan),
                         path, jo, keys, index, steps, plan)
    ELSE NestedInner(nested_crossproduct_scatter(X, Append(path, index),
                                                 ScatterOne(jo, keys[1], index),
                                                 Tail(keys), plan),
                     path, jo, keys, index, steps, plan)

nested_crossproduct_scatter(X, path, jo, keys, plan) ==
    NestedShards([X EXCEPT !.rc = Put(@, path,
                     ReceiveScatterOutput(
                        (CrossOut :> [n \in 1..Len(jo[keys[1]].items) |-> Null]),
                        Len(jo[keys[1]].items), jo, keys))],
                 path, jo, keys, 1, <<>>, plan)

RECURSIVE SizeLoop(_, _, _)
RECURSIVE crossproduct_size(_, _)
SizeLoop(n, jo, keys) ==
    IF n = 0 THEN 0 ELSE crossproduct_size(jo, keys) + SizeLoop(n - 1, jo, keys)

crossproduct_size(jo, keys) ==
    IF Len(keys) = 1 THEN Len(jo[keys[1]].items)
    ELSE SizeLoop(Len(jo[keys[1]].items), jo, Tail(keys))

\* _flat_crossproduct_scatter: put counts from 0 as in the source, and the
\* sequences of the model from 1, so the curried callback writes at put + 1
RECURSIVE FlatShards(_, _, _, _, _, _, _, _)

FlatLeaf(m, jo, keys, prefix, index, steps, put, plan) ==
    FlatShards(m.X, jo, keys, prefix, index + 1, Append(steps, m.step), put + 1, plan)

\* FlatInner that does not move put past the shards of the recursion
FlatInnerPutKept(r, jo, keys, prefix, index, steps, put, plan) ==
    IF r.ret = "raise" THEN r
    ELSE FlatShards(r.X, jo, keys, prefix, index + 1, steps \o r.steps, put, plan)

FlatInner(r, jo, keys, prefix, index, steps, put, plan) ==
    IF r.ret = "raise" THEN r
    ELSE FlatShards(r.X, jo, keys, prefix, index + 1, steps \o r.steps,
                    put + Len(r.steps), plan)

FlatShards(X, jo, keys, prefix, index, steps, put, plan) ==
    IF index > Len(jo[keys[1]].items)
    THEN [ret |-> "ok", X |-> X, steps |-> steps, put |-> put]
    ELSE IF Len(keys) = 1
    THEN IF plan[Append(prefix, index)] = "whenerr"
         THEN [ret |-> "raise", X |-> X, steps |-> steps, put |-> put]
         ELSE FlatLeaf(LeafMade(X, <<>>, put + 1, ScatterOne(jo, keys[1], index),
                                Append(prefix, index), plan),
                       jo, keys, prefix, index, steps, put, plan)
    ELSE FlatInner(FlatShards(X, ScatterOne(jo, keys[1], index), Tail(keys),
                              Append(prefix, index), 1, <<>>, put, plan),
                   jo, keys, prefix, index, steps, put, plan)

FlatMade(r) ==
    IF r.ret = "raise" THEN [ret |-> "raise", X |-> r.X]
    ELSE [ret |-> "ok",
          X |-> [cross_setTotal(r.X, <<>>, r.put, r.steps) EXCEPT !.gen = Put(@, <<>>, 0)]]

flat_crossproduct_scatter(X, jo, keys, plan) ==
    FlatMade(FlatShards([X EXCEPT !.rc = Put(@, <<>>,
                            ReceiveScatterOutput(
                               (CrossOut :> [n \in 1..crossproduct_size(jo, keys) |-> Null]),
                               0, jo, keys))],
                        jo, keys, <<>>, 1, <<>>, 0, plan))

(***************************************************************************)
(* parallel_steps over a collector of the map, from where its generator    *)
(* was left to its next yield or its end.  A step may be a nested          *)
(* parallel_steps generator, so pulling a step may yield a job, yield None *)
(* or end; a suspended generator goes on inside "for j in step" with       *)
(* made_progress set.                                                      *)
(***************************************************************************)
CrossPS(kind, job, X) == [kind |-> kind, job |-> job, X |-> X]

CrossStop(X, path) ==
    xon_error = "stop" /\ X.rc[path].processStatus \notin {"success", "skipped"}

RECURSIVE CrossWhile(_, _)
RECURSIVE CrossScan(_, _, _)
RECURSIVE CrossForJ(_, _, _, _)
RECURSIVE cross_parallel_steps(_, _)

\* after the for loop: yield None, or go round the while loop
CrossAfterFor(X, path, mp) ==
    IF ~mp /\ X.rc[path].completed < X.rc[path].total
    THEN CrossPS("none", NoJob, [X EXCEPT !.gen[path] = 0])
    ELSE CrossWhile(X, path)

CrossWhile(X, path) ==
    IF X.rc[path].completed < X.rc[path].total THEN CrossScan(X, path, 1)
    ELSE CrossPS("stop", NoJob, [X EXCEPT !.gen[path] = -1])

\* "for j in step" is exhausted, or left because j is None
CrossStepEnded(X, path, index, mp) ==
    IF mp THEN CrossAfterFor(X, path, TRUE) ELSE CrossScan(X, path, index + 1)

\* the step gave r: the generator ended, or it gave a job or None
CrossGot(r, path, index, mp) ==
    IF r.kind = "stop" THEN CrossStepEnded(r.X, path, index, mp)
    ELSE IF CrossStop(r.X, path) THEN CrossAfterFor(r.X, path, mp)
    ELSE IF r.kind = "job" THEN CrossPS("job", r.job, [r.X EXCEPT !.gen[path] = index])
    ELSE CrossStepEnded(r.X, path, index, mp)

CrossPullStep(X, path, index, mp, e) ==
    IF e.k = "none" THEN CrossStepEnded(X, path, index, mp)
    ELSE IF e.k = "gen" THEN CrossGot(cross_parallel_steps(X, e.path), path, index, mp)
    ELSE IF e.st = "fresh"
    THEN CrossGot(CrossPS("job", CrossJob(e), [X EXCEPT !.rc[path].steps[index].st = "spent"]),
                  path, index, mp)
    ELSE IF e.st = "raise"
    THEN CrossScan(cross_receive_scatter_output(
                      [X EXCEPT !.rc[path].steps[index].st = "spent",
                                !.done = @ \cup {e.leaf}],
                      path, index, EmptyObj, "permanentFail"),
                   path, index + 1)
    ELSE CrossStepEnded(X, path, index, mp)

CrossForJ(X, path, index, mp) == CrossPullStep(X, path, index, mp, X.rc[path].steps[index])

CrossScan(X, path, index) ==
    IF index > Len(X.rc[path].steps) \/ CrossStop(X, path) THEN CrossAfterFor(X, path, FALSE)
    ELSE IF X.rc[path].steps[index].k = "none" THEN CrossScan(X, path, index + 1)
    ELSE CrossForJ(X, path, index, FALSE)

cross_parallel_steps(X, path) ==
    IF X.gen[path] = -1 THEN CrossPS("stop", NoJob, X)
    ELSE IF X.gen[path] = 0 THEN CrossWhile(X, path)
    ELSE CrossForJ(X, path, X.gen[path], TRUE)

(***************************************************************************)
(* The run of one cross-product scatter: the scatter method is called      *)
(* (CrossScatter), the caller pulls the generator it returned (CrossPull)  *)
(* and runs each job it is given before it pulls again (CrossRun).         *)
(***************************************************************************)
XJ == [rc |-> xrc, gen |-> xgen, calls |-> xcalls, done |-> xdone]

CrossCommit(X) ==
    /\ xrc' = X.rc
    /\ xgen' = X.gen
    /\ xcalls' = X.calls
    /\ xdone' = X.done

CrossInit ==
    /\ xmethod \in {"nested_crossproduct", "flat_crossproduct"}
    /\ xkeys \in { <<KeyA>>, <<KeyA, KeyB>> }
    /\ \E la \in 0..MaxLeaves, lb \in 0..MaxLeaves :
           /\ la * lb <= MaxLeaves
           /\ xjoborder = (KeyA :> ArrayOfLen(la)) @@ (KeyB :> ArrayOfLen(lb))
    /\ xon_error \in {"stop", "continue"}
    /\ xrc = EmptyObj
    /\ xgen = EmptyObj
    /\ xcalls = <<>>
    /\ xdone = {}
    /\ xpc = "init"
    /\ xinflight = NoJob
    /\ DriverIdle
    /\ RouterIdle

CrossScatter ==
    /\ xpc = "init"
    /\ \E plan \in [CrossLeaves(xjoborder, xkeys) -> CrossPlans] :
         \E r \in { IF xmethod = "nested_crossproduct"
                    THEN nested_crossproduct_scatter(XJ, <<>>, xjoborder, xkeys, plan)
                    ELSE flat_crossproduct_scatter(XJ, xjoborder, xkeys, plan) } :
            /\ CrossCommit(r.X)
            /\ xpc' = IF r.ret = "raise" THEN "raised" ELSE "built"
    /\ UNCHANGED <<xmethod, xkeys, xjoborder, xon_error, xinflight>>
    /\ UNCHANGED <<dvars, rvars>>

\* the workflow's driver leaves the step's generator for good when the
\* workflow has failed under on_error = stop, and does not come back to it
\* once the step's output callback has run
CrossLeft ==
    \/ /\ xon_error = "stop"
       /\ \E n \in 1..Len(xcalls) : xcalls[n].status \notin {"success", "skipped"}
    \/ xpc = "stalled" /\ xcalls # <<>>

CrossPull ==
    /\ xpc \in {"built", "yielded", "stalled"}
    /\ xinflight = NoJob
    /\ IF CrossLeft
       THEN /\ xpc' = "left"
            /\ UNCHANGED <<xrc, xgen, xcalls, xdone, xinflight>>
       ELSE \E r \in { cross_parallel_steps(XJ, <<>>) } :
               /\ CrossCommit(r.X)
               /\ xinflight' = r.job
               /\ xpc' = CASE r.kind = "job" -> "yielded"
                           [] r.kind = "none" -> "stalled"
                           [] OTHER -> "done"
    /\ UNCHANGED <<xmethod, xkeys, xjoborder, xon_error>>
    /\ UNCHANGED <<dvars, rvars>>

CrossRun ==
    /\ xinflight # NoJob
    /\ \E status \in JobStatuses :
         \E X \in { cross_receive_scatter_output(
                       [XJ EXCEPT !.done = @ \cup {xinflight.leaf}],
                       xinflight.rc, xinflight.index,
                       IF status = "success"
                       THEN (CrossOut :> CrossToolOutput(xinflight.input))
                       ELSE EmptyObj,
                       status) } :
            CrossCommit(X)
    /\ xinflight' = NoJob
    /\ UNCHANGED <<xmethod, xkeys, xjoborder, xon_error, xpc>>
    /\ UNCHANGED <<dvars, rvars>>

CrossNext == CrossScatter \/ CrossPull \/ CrossRun

SpecCross == CrossInit /\ [][CrossNext]_vars

(***************************************************************************)
(* Fairness.  The caller keeps pulling and runs every job it is given, and *)
(* the generator runs on whenever it is resumed: as long as the run has    *)
(* neither ended nor raised, its position keeps changing.  No action keeps *)
(* pc unchanged twice in a row but ForStep, which then moves on to the     *)
(* next step.                                                              *)
(***************************************************************************)
Positions == {"start", "raised", "while", "for", "iter", "yielded", "stalled", "exit", "done"}

Running == pc \notin {"done", "raised"}

Resume == Running /\ pc' \in Positions

FairSpec == Spec /\ WF_pc(Resume)

\* the same for a cross-product scatter on its own: the scatter method is
\* called, every job given is run, and the generator is pulled as long as
\* that changes anything
FairSpecCross == SpecCross /\ WF_xvars(CrossNext)

(***************************************************************************)
(* Properties.                                                             *)
(***************************************************************************)
Called == Len(callbacks) >= 1

\* every source of every input of step t is bound with success or skipped
SourcesBound(t) ==
    \A i \in 1..Len(Wf.steps[t].inputs) :
        \A c \in 1..Len(Wf.steps[t].inputs[i].source) :
            LET src == Wf.steps[t].inputs[i].source[c]
            IN  /\ src \in DOMAIN state
                /\ state[src].k = "item"
                /\ state[src].success \in {"success", "skipped"}

AllStepsSucceeded ==
    \A t \in Steps : completed[t] /\ stepStatus[t] \in {"success", "skipped"}

\* C1: the final output callback is never invoked a second time, and it has
\* been invoked exactly once when the job sequence is exhausted.
C1_CallbackOnce ==
    /\ Len(callbacks) <= 1
    /\ pc = "done" => Len(callbacks) = 1

\* the run in which C1 fails: the only step's scatter has every shard skipped
C1_Witness ==
    /\ wfname = "Gather"
    /\ Len(callbacks) = 2
    /\ stepStatus[1] = "skipped"

\* C2: with the caller pulling and running every job, the job sequence
\* eventually ends (or the start raised) and the final callback has fired.
C2_Terminates == <>(pc = "raised" \/ (pc = "done" /\ Called))

\* the run in which C2 fails: a shard of a scatter of two failed under
\* on_error=stop, the scatter yields None at every pull and the driver, whose
\* own processStatus is still success, yields None in turn
C2_Witness ==
    /\ on_error = "stop"
    /\ pc = "stalled"
    /\ processStatus = "success"
    /\ \E t \in Steps :
          /\ rcs[t] # NoRC
          /\ rcs[t].processStatus = "permanentFail"
          /\ rcs[t].completed < rcs[t].total

\* C3 as stated: at every invocation of the final callback the status is
\* success exactly when every step completed with success or skipped.
C3_SuccessIffSteps ==
    \A n \in 1..Len(callbacks) : (callbacks[n].status = "success") <=> AllStepsSucceeded

\* C3: at every invocation of the final callback the status is success exactly
\* when every step completed with success or skipped, no job failed to be
\* made and collecting the workflow outputs did not raise.
C3_SuccessIffNothingFailed ==
    \A n \in 1..Len(callbacks) :
        (callbacks[n].status = "success")
            <=> (AllStepsSucceeded /\ cannot_make = {} /\ ~callbacks[n].wo.isNone)

\* every step succeeded or was skipped, and collecting the outputs raised
C3_Witness ==
    /\ Called
    /\ AllStepsSucceeded
    /\ cannot_make = {}
    /\ callbacks[1].wo.isNone
    /\ callbacks[1].status = "permanentFail"

Stopping == on_error = "stop" /\ processStatus \notin {"success", ""}

\* the workflow outputs all of whose sources are unset
UnsetOutputs ==
    { i \in 1..Len(Wf.outputs) :
        \A c \in 1..Len(Wf.outputs[i].source) : state[Wf.outputs[i].source[c]] = Unset }

C5_DispatchAfterSources ==
    [][/\ \A t \in Steps : (~submitted[t] /\ submitted'[t]) => SourcesBound(t)
       /\ (inflight' # NoJob /\ inflight' # inflight) => SourcesBound(inflight'.step)]_vars

\* the step listed first reads the step listed second: it is dispatched on a
\* later pass, once its source is bound
C5_Witness ==
    /\ wfname = "Reversed"
    /\ submitted[1]
    /\ stepStatus[2] = "success"
    /\ state[StepOut("s2")].success = "success"

\* C6: every step-output id is unset until it is written, and it is written
\* at most once.
C6_WrittenOnce ==
    \A id \in OutputIds :
        /\ writes[id] <= 1
        /\ (id \in DOMAIN state /\ writes[id] = 0) => state[id] = Unset

\* the run in which C6 fails: every shard of the scatter is skipped
C6_Witness ==
    /\ wfname = "Scatter"
    /\ writes[StepOut("s1")] = 2
    /\ rcs[1] # NoRC
    /\ rcs[1].calls = 2

\* C7: once permanentFail, processStatus stays permanentFail, and once it has
\* left success it never returns to it.
C7_Sticky ==
    [][/\ processStatus = "permanentFail" => processStatus' = "permanentFail"
       /\ processStatus \notin {"success", ""} => processStatus' # "success"]_vars

\* a step completes with temporaryFail after another one completed with
\* permanentFail
C7_Witness ==
    /\ wfname = "Independent"
    /\ on_error = "continue"
    /\ stepStatus[1] = "permanentFail"
    /\ stepStatus[2] = "temporaryFail"
    /\ stepStatus[3] = "success"
    /\ processStatus = "permanentFail"

C9_RouterPure ==
    /\ rstate = rstate0
    /\ Len(rcalls) >= 2 => rcalls[2] = rcalls[1]

\* the call in which C9 fails: an unrecognized linkMerge on a source whose
\* type is a union leaves the source's type at the arm it was trying
C9_Witness ==
    /\ Len(rcalls) >= 1
    /\ rcalls[1].err = "UnknownLinkMerge"
    /\ rstate0[SrcA] # Unset
    /\ IsUnion(rstate0[SrcA].parameter.type)
    /\ rstate[SrcA].parameter.type = IntT

\* C10: once the run has started every workflow input has a state entry with
\* status success, holding the job-order value when there is one and the
\* default otherwise; when an input has neither the run raises before any
\* step is polled.
C10_Seeded ==
    /\ pc \notin {"start", "raised"} =>
         \A i \in 1..Len(Wf.inputs) :
            LET inp == Wf.inputs[i]
                inp_id == shortname(inp.id)
            IN  /\ inp_id \in DOMAIN joborder \/ inp.hasDefault
                /\ inp.id \in DOMAIN state
                /\ state[inp.id] =
                     WorkflowStateItem(inp.type,
                                       IF inp_id \in DOMAIN joborder THEN joborder[inp_id]
                                       ELSE inp.default,
                                       "success")
    /\ pc = "raised" =>
         /\ \E i \in 1..Len(Wf.inputs) :
               /\ shortname(Wf.inputs[i].id) \notin DOMAIN joborder
               /\ ~Wf.inputs[i].hasDefault
         /\ \A t \in Steps : ~submitted[t] /\ iterable[t] = "none" /\ ~completed[t]
         /\ inflight = NoJob
         /\ callbacks = <<>>

\* an input with a default is given in the job order: the job order wins
C10_Witness ==
    /\ wfname = "Reversed"
    /\ pc = "done"
    /\ <<"x">> \in DOMAIN joborder
    /\ state[WfIn("x")].value = IntV(1)
    /\ state[WfIn("x")].success = "success"
    /\ Wf.inputs[1].default = IntV(5)

\* the output parameters of step t
OutputParms(t) == { Wf.steps[t].outputs[i] : i \in 1..Len(Wf.steps[t].outputs) }

\* C11: when the when expression of a step that is not scattered evaluates
\* to false, no job is yielded, every output id of the step is written once
\* with null and status skipped and the step is completed; when it evaluates
\* to true the inner process is dispatched (its job is yielded, or making it
\* raised); any other value raises WorkflowException: the step is neither
\* submitted nor completed and processStatus is permanentFail.
C11_When ==
    [][\A t \in Steps :
         Len(whenval'[t]) > Len(whenval[t]) =>
           LET w == whenval'[t][Len(whenval'[t])]
           IN  /\ w = "false" =>
                    /\ inflight' = NoJob
                    /\ completed'[t] /\ submitted'[t]
                    /\ stepStatus'[t] = "skipped"
                    /\ t \notin cannot_make' \ cannot_make
                    /\ \A o \in OutputParms(t) :
                         /\ state'[o.id] = WorkflowStateItem(o.type, Null, "skipped")
                         /\ writes'[o.id] = writes[o.id] + 1
               /\ w = "true" =>
                    /\ submitted'[t] /\ ~completed'[t]
                    /\ writes' = writes
                    /\ \/ inflight' # NoJob /\ inflight'.step = t /\ inflight'.index = 0
                       \/ inflight' = NoJob /\ t \in cannot_make'
               /\ w \notin {"true", "false"} =>
                    /\ inflight' = NoJob
                    /\ ~submitted'[t] /\ ~completed'[t]
                    /\ writes' = writes
                    /\ t \in cannot_make'
                    /\ processStatus' = "permanentFail"]_vars

\* a conditional step was skipped: its output is null with status skipped
C11_Witness ==
    /\ wfname = "Conditional"
    /\ whenval[1] = <<"false">>
    /\ completed[1]
    /\ stepStatus[1] = "skipped"
    /\ state[StepOut("s1")] = WorkflowStateItem(IntT, Null, "skipped")
    /\ writes[StepOut("s1")] = 1

\* the workflow outputs that merge two sources with pickValue first_non_null
MergingOutputs ==
    { o \in { Wf.outputs[i] : i \in 1..Len(Wf.outputs) } :
        o.pickValue = "first_non_null" /\ Len(o.source) = 2 }

\* the step that writes the step output id
StepOf(id) == CHOOSE t \in Steps : \E o \in OutputParms(t) : o.id = id

\* C12: a step input with a default whose only source is bound to null (its
\* step was skipped) is bound to the default in the job that is yielded; and
\* an output that merges two branches with pickValue first_non_null, one
\* skipped and one run with success, is bound to the value of the branch
\* that ran, with status success when the other steps succeeded too and no
\* WorkflowException was caught.
C12_SkippedSource ==
    /\ inflight # NoJob =>
         \A i \in 1..Len(Wf.steps[inflight.step].inputs) :
            LET inp == Wf.steps[inflight.step].inputs[i]
            IN  (inp.hasDefault /\ Len(inp.source) = 1 /\ inp.linkMerge = NoLinkMerge
                 /\ inflight.index = 0) =>
                   inflight.input[inp.id] =
                      IF state[inp.source[1]].value = Null THEN inp.default
                      ELSE state[inp.source[1]].value
    /\ \A n \in 1..Len(callbacks) : \A o \in MergingOutputs :
         \A ran \in 1..2 :
            (/\ stepStatus[StepOf(o.source[ran])] = "success"
             /\ stepStatus[StepOf(o.source[3 - ran])] = "skipped") =>
                /\ ~callbacks[n].wo.isNone
                /\ callbacks[n].wo.obj[shortname(o.id)] = state[o.source[ran]].value
                /\ state[o.source[ran]].value # Null
                /\ state[o.source[3 - ran]].value = Null
                /\ (AllStepsSucceeded /\ cannot_make = {}) => callbacks[n].status = "success"

\* the first branch is skipped and the second runs: the output that merges
\* them holds the second branch's value and the step that reads the first
\* branch ran on its default
C12_Witness ==
    /\ wfname = "Conditional"
    /\ stepStatus = <<"skipped", "success", "success">>
    /\ Len(callbacks) = 1
    /\ callbacks[1].status = "success"
    /\ callbacks[1].wo.obj[<<"y">>] = IntV(2)
    /\ callbacks[1].wo.obj[<<"z">>] = IntV(8)

\* the id the router binds rparm under, and the link-merge in force
RouterIid == IF rmode = "output" THEN shortname(rparm.id) ELSE rparm.id

RouterLinkMerge ==
    IF rparm.linkMerge # NoLinkMerge THEN rparm.linkMerge
    ELSE IF Len(rparm.source) > 1 THEN "merge_nested" ELSE NoLinkMerge

\* the sources of rparm the first call includes: the ones that are bound
RouterIncluded == SelectSeq(rparm.source, LAMBDA src : rstate0[src] # Unset)

\* the first call gets as far as merging: every source is a known state key,
\* multiple sources are allowed, and with allowPartial false every source is
\* bound with success or skipped
RouterMerges ==
    /\ Len(rcalls) >= 1
    /\ rparm.hasSource
    /\ \A c \in 1..Len(rparm.source) : rparm.source[c] \in DOMAIN rstate0
    /\ Len(rparm.source) > 1 => rmulti
    /\ rmode = "step" =>
         \A c \in 1..Len(rparm.source) :
            /\ rstate0[rparm.source[c]] # Unset
            /\ rstate0[rparm.source[c]].success \in {"success", "skipped"}

\* what each included source contributes to the merged list
RECURSIVE MergedItems(_, _)
MergedItems(srcs, flatten) ==
    IF srcs = <<>> THEN <<>>
    ELSE LET val == rstate0[Head(srcs)].value
         IN  (IF flatten /\ IsList(val) THEN val.items ELSE <<val>>)
                \o MergedItems(Tail(srcs), flatten)

RouterMerged == MergedItems(RouterIncluded, RouterLinkMerge = "merge_flattened")

\* the positions of the non-null elements of a list
NonNullAt(seq) == { i \in 1..Len(seq) : seq[i] # Null }

\* sub is seq with its nulls removed, the others in their order
IsNonNullPart(sub, seq) ==
    /\ Len(sub) = Cardinality(NonNullAt(seq))
    /\ \A j \in 1..Len(sub) :
         \E i \in NonNullAt(seq) :
            /\ sub[j] = seq[i]
            /\ Cardinality({ h \in NonNullAt(seq) : h < i }) = j - 1

\* C13: pickValue over a merged list: first_non_null binds the first
\* non-null element and raises when there is none; only_non_null binds the
\* single non-null element and raises when there is none or more than one;
\* all_non_null binds the list without its nulls, the order kept.
C13_PickValue ==
    (/\ RouterMerges
     /\ RouterLinkMerge \in {"merge_nested", "merge_flattened"}
     /\ RouterIncluded # <<>>
     /\ rparm.pickValue # NoPickValue) =>
        LET seq == RouterMerged
            nn == NonNullAt(seq)
            r == rcalls[1]
        IN  /\ rparm.pickValue = "first_non_null" =>
                 IF nn = {} THEN r.ret = "raise" /\ r.err = "AllNull"
                 ELSE /\ r.ret = "ok"
                      /\ \E i \in nn : /\ \A h \in nn : i <= h
                                       /\ r.obj[RouterIid] = seq[i]
            /\ rparm.pickValue = "only_non_null" =>
                 IF nn = {} THEN r.ret = "raise" /\ r.err = "AllNull"
                 ELSE IF Cardinality(nn) > 1 THEN r.ret = "raise" /\ r.err = "MultipleNonNull"
                 ELSE r.ret = "ok" /\ \E i \in nn : r.obj[RouterIid] = seq[i]
            /\ rparm.pickValue = "all_non_null" =>
                 /\ r.ret = "ok"
                 /\ IsList(r.obj[RouterIid])
                 /\ IsNonNullPart(r.obj[RouterIid].items, seq)

\* a list with a null and a number is flattened with another number, and
\* all_non_null keeps the two numbers in their order
C13_Witness ==
    /\ RouterMerges
    /\ rparm.pickValue = "all_non_null"
    /\ RouterMerged = <<Null, IntV(2), IntV(3)>>
    /\ rcalls[1].ret = "ok"
    /\ rcalls[1].obj[RouterIid] = ListV(<<IntV(2), IntV(3)>>)

\* the source's type passes the check against the sink of rparm
RouterTypeOk(src) ==
    \/ rparm.valueFrom
    \/ rparm.type = AnyT
    \/ can_assign_src_to_sink(rstate0[src].parameter.type, rparm.type)

\* the binding of a single value: the default stands in for null
RouterCopied(val) == IF val = Null /\ rparm.hasDefault THEN rparm.default ELSE val

\* the binding a sink with no linkMerge gets from its included sources: the
\* value of the source itself, type-checked
RouterAssigns(r) ==
    IF \A c \in 1..Len(RouterIncluded) : RouterTypeOk(RouterIncluded[c])
    THEN /\ r.ret = "ok"
         /\ r.obj[RouterIid] =
              RouterCopied(rstate0[RouterIncluded[Len(RouterIncluded)]].value)
    ELSE r.ret = "raise" /\ r.err = "TypeMismatch"

\* the binding merge_nested or merge_flattened gives
RouterLists(r, flatten) ==
    /\ r.ret = "ok"
    /\ r.obj[RouterIid] = ListV(MergedItems(RouterIncluded, flatten))

\* C14 as stated: with linkMerge set the sink is bound to the list of the
\* included sources' values (merge_nested) or to their concatenation
\* (merge_flattened), in source-list order; with linkMerge not set the source
\* value is type-checked and copied, not wrapped in a list.
C14_LinkMerge ==
    (RouterMerges /\ RouterIncluded # <<>> /\ rparm.pickValue = NoPickValue) =>
        /\ rparm.linkMerge = "merge_nested" => RouterLists(rcalls[1], FALSE)
        /\ rparm.linkMerge = "merge_flattened" => RouterLists(rcalls[1], TRUE)
        /\ rparm.linkMerge = NoLinkMerge => RouterAssigns(rcalls[1])

\* C14: as above, but a sink with no linkMerge and more than one source is
\* merged as by merge_nested; only a sink with no linkMerge and one source
\* gets the type-checked copy of the source value.
C14_LinkMergeDefault ==
    (RouterMerges /\ RouterIncluded # <<>> /\ rparm.pickValue = NoPickValue) =>
        /\ rparm.linkMerge = "merge_nested" => RouterLists(rcalls[1], FALSE)
        /\ rparm.linkMerge = "merge_flattened" => RouterLists(rcalls[1], TRUE)
        /\ (rparm.linkMerge = NoLinkMerge /\ Len(rparm.source) > 1) =>
              RouterLists(rcalls[1], FALSE)
        /\ (rparm.linkMerge = NoLinkMerge /\ Len(rparm.source) = 1) =>
              RouterAssigns(rcalls[1])

\* two sources and no linkMerge: the sink is bound to the list of both values
C14_Witness ==
    /\ RouterMerges
    /\ rparm.linkMerge = NoLinkMerge
    /\ rparm.pickValue = NoPickValue
    /\ rparm.source = <<SrcA, SrcB>>
    /\ rcalls[1].ret = "ok"
    /\ rcalls[1].obj[RouterIid] = ListV(<<IntV(1), IntV(3)>>)

\* the steps scattered by dot product
DotProductSteps == { t \in Steps : Wf.steps[t].scatterMethod = "dotproduct" }

\* the value step t's input id is resolved to: the value of its source
InputValue(t, id) ==
    LET inp == CHOOSE p \in { Wf.steps[t].inputs[i] : i \in 1..Len(Wf.steps[t].inputs) } :
                  p.id = id
    IN  state[inp.source[1]].value

ScatterKeys(t) == { Wf.steps[t].scatter[n] : n \in 1..Len(Wf.steps[t].scatter) }

\* the scattered inputs of step t are arrays, and their lengths
ScatterArrays(t) == SourcesBound(t) /\ \A k \in ScatterKeys(t) : IsList(InputValue(t, k))

ScatterLengths(t) == { Len(InputValue(t, k).items) : k \in ScatterKeys(t) }

\* C15: a dot-product scatter over arrays of one length L makes exactly L
\* shards, and the job of shard i gets the i-th element of every scattered
\* array and the other inputs unchanged; when two scattered arrays differ in
\* length, making the step's jobs raises WorkflowException and no shard and
\* no collector is made.
C15_DotProduct ==
    /\ [](\A t \in DotProductSteps :
            /\ rcs[t] # NoRC =>
                 /\ ScatterArrays(t)
                 /\ \E L \in 0..(MaxShards + 1) :
                      /\ ScatterLengths(t) = {L}
                      /\ rcs[t].total = L
                      /\ Len(rcs[t].steps) = L
                      /\ \A id \in DOMAIN rcs[t].dest : Len(rcs[t].dest[id]) = L
            /\ (inflight # NoJob /\ inflight.step = t) =>
                 /\ rcs[t] # NoRC
                 /\ inflight.index \in 1..rcs[t].total
                 /\ \A i \in 1..Len(Wf.steps[t].inputs) :
                      LET id == Wf.steps[t].inputs[i].id
                      IN  inflight.input[id] =
                             IF id \in ScatterKeys(t)
                             THEN InputValue(t, id).items[inflight.index]
                             ELSE InputValue(t, id)
            /\ (ScatterArrays(t) /\ Cardinality(ScatterLengths(t)) > 1) =>
                 /\ rcs[t] = NoRC
                 /\ ~submitted[t] /\ ~completed[t]
                 /\ inflight = NoJob \/ inflight.step # t)
    /\ [][(/\ pc = "iter"
           /\ curstep \in DotProductSteps
           /\ gens[curstep] = "fresh"
           /\ ScatterArrays(curstep)
           /\ Cardinality(ScatterLengths(curstep)) > 1) =>
              /\ curstep \in cannot_make'
              /\ processStatus' = "permanentFail"
              /\ inflight' = NoJob]_vars

\* the second shard of a scatter over [1, 2] is yielded: it gets the second
\* element, and the input that is not scattered as it is
C15_Witness ==
    /\ wfname = "Gather"
    /\ DOMAIN joborder = { <<"a">> }
    /\ joborder[<<"a">>] = ArrayOfLen(2)
    /\ inflight # NoJob
    /\ inflight.index = 2
    /\ inflight.input[StepIn("s1", "a")] = IntV(2)
    /\ inflight.input[StepIn("s1", "c")] = IntV(5)
    /\ rcs[1].total = 2

\* a dot product over arrays of different lengths was refused
C15_Mismatch ==
    /\ wfname = "Scatter"
    /\ DOMAIN joborder = { <<"a">>, <<"b">> }
    /\ joborder[<<"a">>] = ArrayOfLen(2)
    /\ joborder[<<"b">>] = ArrayOfLen(1)
    /\ 1 \in cannot_make
    /\ rcs[1] = NoRC

\* the run has ended and the last invocation of the final callback got
\* status permanentFail
EndedPermanentFail ==
    /\ pc = "done"
    /\ Called
    /\ callbacks[Len(callbacks)].status = "permanentFail"

\* C16 as stated: once the driver has caught a WorkflowException for a step,
\* processStatus is permanentFail, the step is marked failed (its job is
\* never made again) and the run ends with the final callback invoked with
\* permanentFail.
C16_StepMarkedFailed ==
    /\ [](cannot_make # {} => processStatus = "permanentFail")
    /\ [][\A t \in cannot_make : gens[t] # "fresh" => gens'[t] # "fresh"]_vars
    /\ (cannot_make # {}) ~> EndedPermanentFail

\* the when expression of a step raised, and the step was made again on the
\* next pass; the run ended with permanentFail
C16_Witness ==
    /\ EndedPermanentFail
    /\ \E t \in cannot_make : Len(whenval[t]) = 2 /\ whenval[t][1] = "other"

\* the workflow has no scatter, no conditional and no step that cannot be made
PlainWorkflow ==
    \A t \in Steps :
        /\ ~Wf.steps[t].when
        /\ Wf.steps[t].scatter = <<>>
        /\ \A i \in 1..Len(Wf.steps[t].inputs) : ~Wf.steps[t].inputs[i].loadContents

NoStepFailed == cannot_make = {} /\ \A t \in Steps : stepStatus[t] \in {"none", "success"}

\* the value of a parameter id when the steps are composed in topological
\* order: a workflow input is its job-order value or its default, a step
\* output is the tool's output on the values of the step's sources
RECURSIVE TopoValue(_)
TopoValue(id) ==
    IF \E i \in 1..Len(Wf.inputs) : Wf.inputs[i].id = id
    THEN LET inp == Wf.inputs[CHOOSE i \in 1..Len(Wf.inputs) : Wf.inputs[i].id = id]
         IN  IF shortname(id) \in DOMAIN joborder THEN joborder[shortname(id)]
             ELSE inp.default
    ELSE LET t == StepOf(id)
             ins == { Wf.steps[t].inputs[i] : i \in 1..Len(Wf.steps[t].inputs) }
             input == [iid \in { p.id : p \in ins } |->
                         TopoValue((CHOOSE p \in ins : p.id = iid).source[1])]
         IN  ToolOutput(t, input)[shortname(id)]

TopoOutputs ==
    [sid \in { shortname(Wf.outputs[i].id) : i \in 1..Len(Wf.outputs) } |->
        TopoValue((CHOOSE o \in { Wf.outputs[i] : i \in 1..Len(Wf.outputs) } :
                      shortname(o.id) = sid).source[1])]

\* C20: a run of a workflow with no scatter and no conditional in which no
\* step failed ends, whatever the order of the steps, with the final callback
\* invoked once with status success and the outputs that composing the steps
\* in topological order gives.
C20_OrderIndependent ==
    (PlainWorkflow /\ pc = "done" /\ NoStepFailed) =>
        /\ Len(callbacks) = 1
        /\ callbacks[1].wo = [isNone |-> FALSE, obj |-> TopoOutputs]
        /\ callbacks[1].status = "success"

\* the chain is run with its steps in the reverse of the dependency order
C20_Witness ==
    /\ wfname = "Chain"
    /\ order = <<3, 2, 1>>
    /\ pc = "done"
    /\ NoStepFailed
    /\ Len(callbacks) = 1
    /\ callbacks[1].wo.obj[<<"y">>] = IntV(4)
    /\ callbacks[1].status = "success"

(***************************************************************************)
(* Cross-product scatter.                                                  *)
(***************************************************************************)
AllLeaves == CrossLeaves(xjoborder, xkeys)

\* the input object of the leaf shard for an index tuple: every scatter
\* key bound to the element of its array at the tuple's index for that key
LeafBinding(leaf) ==
    [key \in DOMAIN xjoborder |->
        IF \E n \in 1..Len(xkeys) : xkeys[n] = key
        THEN xjoborder[key].items[leaf[CHOOSE n \in 1..Len(xkeys) : xkeys[n] = key]]
        ELSE xjoborder[key]]

LeafOutput(leaf) == CrossToolOutput(LeafBinding(leaf))

AxisLen(n) == Len(xjoborder[xkeys[n]].items)

\* val is nested once per key from key n on, the arrays of a level as long
\* as that key's array, and the element for a leaf is that leaf's output
\* (or null, when filled is not asked for)
RECURSIVE NestedValueOk(_, _, _, _)
NestedValueOk(val, n, prefix, filled) ==
    IF n > Len(xkeys)
    THEN val = LeafOutput(prefix) \/ (~filled /\ val = Null)
    ELSE /\ val.k = "list"
         /\ Len(val.items) = AxisLen(n)
         /\ \A i \in 1..AxisLen(n) :
                NestedValueOk(val.items[i], n + 1, Append(prefix, i), filled)

\* C17: under the nested cross-product method, every invocation of the
\* step's output callback comes when all leaf shards have completed, and
\* delivers an array nested once per scatter key, the arrays of level i as
\* long as the i-th key's array, whose element at [i_1]...[i_n] is the
\* output of the shard bound to the elements i_1, ..., i_n (null for a
\* shard that gave no output; none is null when the status is success)
C17_NestedCrossProduct ==
    xmethod = "nested_crossproduct" =>
        \A c \in 1..Len(xcalls) :
            /\ xcalls[c].done = AllLeaves
            /\ NestedValueOk(xcalls[c].output[CrossOut], 1, <<>>, xcalls[c].status = "success")

\* a = [1, 2], b = [1]: the callback ran when only the shard (1, 1) had
\* completed, with null in the place of the array for a = 2
C17_Witness ==
    /\ xmethod = "nested_crossproduct"
    /\ xkeys = <<KeyA, KeyB>>
    /\ Len(xjoborder[KeyA].items) = 2 /\ Len(xjoborder[KeyB].items) = 1
    /\ Len(xcalls) >= 1
    /\ xcalls[1].done = { <<1, 1>> }
    /\ xcalls[1].output[CrossOut] = ListV(<<ListV(<<Null>>), Null>>)

RECURSIVE AxisProduct(_)
AxisProduct(n) == IF n > Len(xkeys) THEN 1 ELSE AxisLen(n) * AxisProduct(n + 1)

\* the row-major position (from 0) of an index tuple, from key n on
RECURSIVE RowMajor(_, _)
RowMajor(leaf, n) ==
    IF n > Len(xkeys) THEN 0
    ELSE (leaf[n] - 1) * AxisProduct(n + 1) + RowMajor(leaf, n + 1)

\* C18: once the flat cross-product method has built its shards there is
\* one collector, whose total and whose output array length are the
\* product of the scattered arrays' lengths; the leaf shard of an index
\* tuple is the step at the tuple's row-major position and writes there
\* (its job's callback index, and the only output ever found there, are
\* its own), and every position 0..total-1 belongs to exactly one shard
C18_FlatCrossProduct ==
    (xmethod = "flat_crossproduct" /\ xpc \in {"built", "yielded", "stalled", "done", "left"}) =>
        /\ DOMAIN xrc = { <<>> }
        /\ xrc[<<>>].total = AxisProduct(1)
        /\ Len(xrc[<<>>].dest[CrossOut]) = AxisProduct(1)
        /\ Len(xrc[<<>>].steps) = AxisProduct(1)
        /\ \A leaf \in AllLeaves :
               /\ RowMajor(leaf, 1) \in 0..(xrc[<<>>].total - 1)
               /\ xrc[<<>>].dest[CrossOut][RowMajor(leaf, 1) + 1] \in {Null, LeafOutput(leaf)}
               /\ xrc[<<>>].steps[RowMajor(leaf, 1) + 1].k = "leaf" =>
                      /\ xrc[<<>>].steps[RowMajor(leaf, 1) + 1].leaf = leaf
                      /\ xrc[<<>>].steps[RowMajor(leaf, 1) + 1].index = RowMajor(leaf, 1) + 1
                      /\ xrc[<<>>].steps[RowMajor(leaf, 1) + 1].rc = <<>>
                      /\ xrc[<<>>].steps[RowMajor(leaf, 1) + 1].input = LeafBinding(leaf)
        /\ \A p \in 0..(xrc[<<>>].total - 1) :
               Cardinality({ leaf \in AllLeaves : RowMajor(leaf, 1) = p }) = 1
        /\ xinflight # NoJob =>
               /\ xinflight.rc = <<>>
               /\ xinflight.index = RowMajor(xinflight.leaf, 1) + 1

\* a = [1, 2], b = [1, 2]: the four shards ran and the flat array holds
\* their outputs in row-major order
C18_Witness ==
    /\ xmethod = "flat_crossproduct"
    /\ xkeys = <<KeyA, KeyB>>
    /\ xpc = "done"
    /\ xdone = { <<1, 1>>, <<1, 2>>, <<2, 1>>, <<2, 2>> }
    /\ xrc[<<>>].total = 4
    /\ xcalls = << [output |-> (CrossOut :> ListV(<<IntV(11), IntV(12), IntV(21), IntV(22)>>)),
                    status |-> "success",
                    done |-> { <<1, 1>>, <<1, 2>>, <<2, 1>>, <<2, 2>> }] >>

EmptyAxis == \E n \in 1..Len(xkeys) : AxisLen(n) = 0

\* C19: when a scattered array is empty, the cross-product scatter methods
\* produce no shard job, and the step's output callback is invoked once,
\* when the scatter method is called, with status success and with the
\* output bound to an empty array of the method's nesting depth
C19_EmptyAxis ==
    (xpc \notin {"idle", "init"} /\ EmptyAxis) =>
        /\ xinflight = NoJob
        /\ xpc # "yielded"
        /\ Len(xcalls) = 1
        /\ xcalls[1].status = "success"
        /\ IF xmethod = "nested_crossproduct"
           THEN NestedValueOk(xcalls[1].output[CrossOut], 1, <<>>, TRUE)
           ELSE xcalls[1].output[CrossOut] = ListV(<<>>)

\* nested cross-product over a = [1] and b = []: the callback ran twice
\* while the shards were built, both times with [[]] and success
C19_Witness ==
    /\ xmethod = "nested_crossproduct"
    /\ xkeys = <<KeyA, KeyB>>
    /\ Len(xjoborder[KeyA].items) = 1 /\ Len(xjoborder[KeyB].items) = 0
    /\ xpc = "built"
    /\ Len(xcalls) = 2
    /\ \A c \in 1..2 : /\ xcalls[c].output[CrossOut] = ListV(<<ListV(<<>>)>>)
                       /\ xcalls[c].status = "success"

(***************************************************************************)
(* Feature requirements.                                                   *)
(***************************************************************************)
\* workflow w uses a feature whose requirement it does not declare
UsesUndeclared(w) ==
    \/ /\ ~w.multi
       /\ \/ \E t \in 1..Len(w.steps) : \E i \in 1..Len(w.steps[t].inputs) :
                 Len(w.steps[t].inputs[i].source) > 1
          \/ \E o \in 1..Len(w.outputs) : Len(w.outputs[o].source) > 1
    \/ /\ ~w.stepInputExpr
       /\ \E t \in 1..Len(w.steps) : \E i \in 1..Len(w.steps[t].inputs) :
              w.steps[t].inputs[i].valueFrom
    \/ /\ ~w.subworkflowReq
       /\ \E t \in 1..Len(w.steps) : w.steps[t].class = "Workflow"
    \/ /\ ~w.scatterReq
       /\ \E t \in 1..Len(w.steps) : w.steps[t].scatter # <<>>

\* C21: a workflow that uses a feature without declaring its requirement is
\* rejected when it is constructed, before any run starts: it is no
\* workflow that can be run, and no run of it submits a step, yields a job
\* or completes a step
C21_RejectedAtConstruction ==
    /\ \A n \in Constructed : ~UsesUndeclared(Workflows[n])
    /\ UsesUndeclared(Wf) =>
           /\ pc \in {"idle", "start"}
           /\ inflight = NoJob
           /\ \A t \in Steps : ~submitted[t] /\ ~completed[t]

\* Undeclared: s1 has run and completed with success, and only then the
\* driver failed to make the job of a step that uses an undeclared feature
C21_Witness ==
    /\ wfname = "Undeclared"
    /\ stepStatus[1] = "success"
    /\ cannot_make # {}
    /\ processStatus = "permanentFail"

(***************************************************************************)
(* The collectors' status.                                                 *)
(***************************************************************************)
FailureStatuses == {"temporaryFail", "permanentFail"}

\* C22: in every collector of a cross-product scatter, a failure status
\* stays a failure status (no later shard's success or skipped replaces
\* it) and permanentFail stays permanentFail; the status a collector hands
\* to its callback is the one it holds, so the same goes for what the
\* callbacks are given
C22_WorstStatus ==
    [][\A path \in DOMAIN xrc :
          /\ path \in DOMAIN xrc'
          /\ xrc[path].processStatus \in FailureStatuses =>
                 xrc'[path].processStatus \in FailureStatuses
          /\ xrc[path].processStatus = "permanentFail" =>
                 xrc'[path].processStatus = "permanentFail"]_vars

\* nested cross-product, on_error = continue: the shards of a = 1 have
\* completed, one with temporaryFail, the shards of a = 2 were skipped or
\* have succeeded, and the step's callback was given status skipped
C22_Witness ==
    /\ xmethod = "nested_crossproduct"
    /\ xkeys = <<KeyA, KeyB>>
    /\ xon_error = "continue"
    /\ <<1>> \in DOMAIN xrc
    /\ xrc[<<1>>].processStatus = "temporaryFail"
    /\ xrc[<<1>>].completed = xrc[<<1>>].total
    /\ xrc[<<>>].processStatus = "skipped"
    /\ Len(xcalls) = 1
    /\ xcalls[1].status = "skipped"
    /\ xcalls[1].done = AllLeaves

(***************************************************************************)
(* Readiness in object_from_state.                                         *)
(***************************************************************************)
\* the loop over the sources of rparm is entered
RouterSourcesRead == rparm.hasSource /\ (Len(rparm.source) > 1 => rmulti)

C23_Partial ==
    /\ rmode = "output"
    /\ rparm.source = <<SrcA, SrcB>>
    /\ rstate0[SrcA] = Unset /\ rstate0[SrcB] = Unset
    /\ Len(rcalls) >= 1
    /\ rcalls[1].ret = "ok"
    /\ rcalls[1].obj[RouterIid] = Null

(***************************************************************************)
(* The collectors' output arrays.                                          *)
(***************************************************************************)
\* position p of the collector at path is the one of the leaf shard: under
\* the nested method the collector is above the shard and p is the shard's
\* index for the collector's key, under the flat method p is the shard's
\* row-major position
OwnPosition(leaf, path, p) ==
    IF xmethod = "nested_crossproduct"
    THEN /\ Len(leaf) > Len(path)
         /\ SubSeq(leaf, 1, Len(path)) = path
         /\ leaf[Len(path) + 1] = p
    ELSE path = <<>> /\ p = RowMajor(leaf, 1) + 1

\* C24: in every collector of a cross-product scatter that was built, the
\* output array is as long as the collector's total and there is one step
\* per position, whose callback writes at that position of that collector;
\* and a position of the array changes only when a leaf shard completes
\* whose position it is
C24_OwnPosition ==
    /\ [](xpc \in {"built", "yielded", "stalled", "done", "left"} =>
            \A path \in DOMAIN xrc :
                /\ Len(xrc[path].dest[CrossOut]) = xrc[path].total
                /\ Len(xrc[path].steps) = xrc[path].total
                /\ \A p \in 1..Len(xrc[path].steps) :
                       /\ xrc[path].steps[p].k = "leaf" =>
                              /\ xrc[path].steps[p].rc = path
                              /\ xrc[path].steps[p].index = p
                              /\ OwnPosition(xrc[path].steps[p].leaf, path, p)
                       /\ xrc[path].steps[p].k = "gen" =>
                              xrc[path].steps[p].path = Append(path, p))
    /\ [][\A path \in DOMAIN xrc :
            \A p \in 1..Len(xrc[path].dest[CrossOut]) :
                xrc'[path].dest[CrossOut][p] # xrc[path].dest[CrossOut][p] =>
                    \E leaf \in xdone' \ xdone : OwnPosition(leaf, path, p)]_vars

\* nested cross-product over a = [1, 2] and b = [1, 2]: the four shards ran
\* and every output is at its own position
C24_Witness ==
    /\ xmethod = "nested_crossproduct"
    /\ xkeys = <<KeyA, KeyB>>
    /\ xpc = "done"
    /\ <<2>> \in DOMAIN xrc
    /\ xrc[<<1>>].dest[CrossOut] = <<IntV(11), IntV(12)>>
    /\ xrc[<<2>>].dest[CrossOut] = <<IntV(21), IntV(22)>>
    /\ xrc[<<>>].dest[CrossOut] =
           <<ListV(<<IntV(11), IntV(12)>>), ListV(<<IntV(21), IntV(22)>>)>>

\* the same for the collector of a dot-product scatter in a workflow run:
\* the arrays are as long as the total, and a position changes only in the
\* completion of the job of that shard of that step
C24_DotProductPosition ==
    /\ [](\A t \in Steps : rcs[t] # NoRC =>
            \A key \in DOMAIN rcs[t].dest : Len(rcs[t].dest[key]) = rcs[t].total)
    /\ [][\A t \in Steps : (rcs[t] # NoRC /\ rcs'[t] # NoRC) =>
            \A key \in DOMAIN rcs[t].dest : \A p \in 1..Len(rcs[t].dest[key]) :
                rcs'[t].dest[key][p] # rcs[t].dest[key][p] =>
                    /\ inflight # NoJob
                    /\ inflight.step = t
                    /\ inflight.index = p]_vars

(***************************************************************************)
(* Skipped shards.                                                         *)
(***************************************************************************)
\* the collector a leaf shard reports to, and its position there
LeafCollector(leaf) ==
    IF xmethod = "nested_crossproduct" THEN SubSeq(leaf, 1, Len(leaf) - 1) ELSE <<>>

LeafPosition(leaf) ==
    IF xmethod = "nested_crossproduct" THEN leaf[Len(leaf)] ELSE RowMajor(leaf, 1) + 1

LeafCollectors ==
    { path \in DOMAIN xrc :
        xmethod = "nested_crossproduct" => Len(path) = Len(xkeys) - 1 }

\* C25: when the scatter method returns, the leaf shards that have completed
\* are the ones the post-scatter hook returned null for; each of them has
\* no job generator, a null at its position, and made its collector's
\* status skipped.  From then on no job is produced for a shard that has
\* completed and its position does not change, and at any time the
\* completed count of a collector of leaf shards is the number of its
\* shards that have completed: each is counted once
C25_SkippedShard ==
    /\ [](xpc = "built" =>
             \A leaf \in xdone :
                 /\ xrc[LeafCollector(leaf)].steps[LeafPosition(leaf)] = NoStep
                 /\ xrc[LeafCollector(leaf)].dest[CrossOut][LeafPosition(leaf)] = Null
                 /\ xrc[LeafCollector(leaf)].processStatus = "skipped")
    /\ [](\A path \in LeafCollectors :
             xrc[path].completed = Cardinality({ l \in xdone : LeafCollector(l) = path }))
    /\ [][\A leaf \in xdone :
              /\ xinflight' # NoJob => xinflight'.leaf # leaf
              /\ xrc'[LeafCollector(leaf)].dest[CrossOut][LeafPosition(leaf)] =
                     xrc[LeafCollector(leaf)].dest[CrossOut][LeafPosition(leaf)]]_vars

\* flat cross-product over a = [1] and b = [1, 2]: the shard (1, 1) was
\* skipped, the shard (1, 2) ran, and the array holds null and its output
C25_Witness ==
    /\ xmethod = "flat_crossproduct"
    /\ xkeys = <<KeyA, KeyB>>
    /\ xpc = "done"
    /\ xdone = { <<1, 1>>, <<1, 2>> }
    /\ xrc[<<>>].completed = 2
    /\ xcalls = << [output |-> (CrossOut :> ListV(<<Null, IntV(12)>>)),
                    status |-> "skipped",
                    done |-> { <<1, 1>>, <<1, 2>> }] >>

(***************************************************************************)
(* Fail-fast and round-robin in parallel_steps.                            *)
(***************************************************************************)
\* a job is produced in this step
JobProduced == xinflight = NoJob /\ xinflight' # NoJob

\* C26: with on_error = stop, once a shard has made the status of a
\* collector of the scatter a failure, the scatter produces no further
\* shard job; and the completion of a job is written at its position and
\* counted by its collector whatever the status is
C26_ScatterFailFast ==
    /\ [][(/\ xon_error = "stop"
            /\ \E path \in DOMAIN xrc : xrc[path].processStatus \in FailureStatuses) =>
               ~JobProduced]_vars
    /\ [][(xinflight # NoJob /\ xinflight' = NoJob) =>
              /\ xrc'[xinflight.rc].completed = xrc[xinflight.rc].completed + 1
              /\ xrc'[xinflight.rc].dest[CrossOut][xinflight.index]
                     \in {Null, CrossToolOutput(xinflight.input)}]_vars

\* nested cross-product, on_error = stop: the collector of a = 1 holds
\* permanentFail and the job of the shard (2, 1) has been produced
C26_Witness ==
    /\ xmethod = "nested_crossproduct"
    /\ xkeys = <<KeyA, KeyB>>
    /\ xon_error = "stop"
    /\ <<1>> \in DOMAIN xrc
    /\ xrc[<<1>>].processStatus = "permanentFail"
    /\ xrc[<<1>>].completed < xrc[<<1>>].total
    /\ xinflight # NoJob
    /\ xinflight.leaf = <<2, 1>>

\* the scan of the collector at path has asked every producer: no leaf job
\* generator is left unstarted, and every nested generator has itself
\* asked all its producers or was stopped by its own collector's failure
RECURSIVE Scanned(_)
Scanned(path) ==
    \A p \in 1..Len(xrc[path].steps) :
        /\ xrc[path].steps[p].k = "leaf" => xrc[path].steps[p].st = "spent"
        /\ xrc[path].steps[p].k = "gen" =>
               \/ Scanned(xrc[path].steps[p].path)
               \/ CrossStop(XJ, xrc[path].steps[p].path)

\* the sequence ends when the generator is resumed and finds its collector
\* finished, and not before
EndsWhenFinished ==
    [][/\ (xpc # "done" /\ xpc' = "done") => xrc'[<<>>].completed >= xrc'[<<>>].total
       /\ xpc' \in {"yielded", "stalled"} => xrc'[<<>>].completed < xrc'[<<>>].total]_vars

\* C27 as stated: the scatter yields its null stall only after a scan that
\* asked every producer and got no job, with the collector not finished;
\* and its sequence ends when the collector's completed count has reached
\* its total
C27_StallAfterFullScan ==
    /\ [](xpc = "stalled" =>
            /\ xinflight = NoJob
            /\ xrc[<<>>].completed < xrc[<<>>].total
            /\ Scanned(<<>>))
    /\ EndsWhenFinished

\* nested cross-product over a = [1, 2, 3] and b = [1]: the outer collector
\* has counted 3 of 3 and called back, and the scatter has yielded the job
\* of the shard (2, 1) all the same
C27_Witness ==
    /\ xmethod = "nested_crossproduct"
    /\ xkeys = <<KeyA, KeyB>>
    /\ xpc = "yielded"
    /\ xinflight # NoJob
    /\ xinflight.leaf = <<2, 1>>
    /\ xrc[<<>>].total = 3
    /\ xrc[<<>>].completed = 3
    /\ Len(xcalls) = 1

\* flat cross-product, on_error = stop: a job has failed, the scatter has
\* yielded None, and the job of another shard was never asked for
C27_CutShort ==
    /\ xmethod = "flat_crossproduct"
    /\ xon_error = "stop"
    /\ xpc = "stalled"
    /\ xrc[<<>>].processStatus = "permanentFail"
    /\ xrc[<<>>].completed < xrc[<<>>].total
    /\ \E p \in 1..Len(xrc[<<>>].steps) :
           xrc[<<>>].steps[p].k = "leaf" /\ xrc[<<>>].steps[p].st = "fresh"

\* the producer at position q of the outermost collector has no job left
\* to give
Exhausted(q) ==
    \/ xrc[<<>>].steps[q].k = "none"
    \/ xrc[<<>>].steps[q].k = "leaf" /\ xrc[<<>>].steps[q].st = "spent"
    \/ /\ xrc[<<>>].steps[q].k = "gen"
       /\ \A n \in 1..Len(xrc[xrc[<<>>].steps[q].path].steps) :
              xrc[xrc[<<>>].steps[q].path].steps[n].k = "leaf" =>
                  xrc[xrc[<<>>].steps[q].path].steps[n].st = "spent"

\* C28: when the scatter yields a job of the producer that gave the job
\* before, every other producer is exhausted: no producer is asked for a
\* second job before the other shards have been visited
C28_RoundRobin ==
    [][(JobProduced /\ xgen[<<>>] > 0 /\ xgen'[<<>>] = xgen[<<>>]) =>
          \A q \in 1..Len(xrc[<<>>].steps) : q # xgen[<<>>] => Exhausted(q)]_vars

\* nested cross-product over a = [1, 2] and b = [1, 2]: the shard (1, 1)
\* has run and the next job is the one of (1, 2), the producer of a = 2
\* not having been asked yet
C28_Witness ==
    /\ xmethod = "nested_crossproduct"
    /\ xkeys = <<KeyA, KeyB>>
    /\ xdone = { <<1, 1>> }
    /\ xinflight # NoJob
    /\ xinflight.leaf = <<1, 2>>
    /\ <<2>> \in DOMAIN xrc
    /\ \A n \in 1..2 : xrc[<<2>>].steps[n].k = "leaf" /\ xrc[<<2>>].steps[n].st = "fresh"


\* ---------------------------------------------------------------------------
\* C29: the driver yields None to its caller only at the end of a full pass
\* over the steps in which no job was yielded and no step completed, while not
\* all steps are completed and processStatus is "success"; in the same
\* situation with another processStatus it leaves its loop instead.
\* made_progress is the pass's record: it is cleared only at the head of the
\* while loop, a yielded job sets it, and a step that completes sets it unless
\* the workflow has failed.
C29_NullStall ==
    /\ [][(pc' = "stalled" /\ pc # "stalled") =>
             /\ pc = "for"
             /\ cur > Len(Wf.steps)
             /\ ~made_progress
             /\ CountCompleted < Len(Wf.steps)
             /\ processStatus = "success"]_vars
    /\ [][(pc' = "yielded" /\ pc # "yielded") => made_progress']_vars
    /\ [][(\E t \in Steps : completed'[t] /\ ~completed[t]) =>
             (made_progress' \/ processStatus' # "success")]_vars
    /\ [][(made_progress /\ ~made_progress') => pc = "while"]_vars
    /\ [][(/\ pc = "for"
           /\ (cur > Len(Wf.steps) \/ FailFast(processStatus))
           /\ ~made_progress
           /\ CountCompleted < Len(Wf.steps)
           /\ processStatus # "success") => pc' = "exit"]_vars

\* the driver has yielded None on a workflow that has not failed
C29_Witness ==
    /\ pc = "stalled"
    /\ processStatus = "success"
    /\ ~made_progress
    /\ ncompleted < Len(Wf.steps)

\* a pass without progress on a failed workflow has ended the loop
C29_ExitOnFailure ==
    /\ pc = "exit"
    /\ processStatus # "success"
    /\ ~made_progress
    /\ ncompleted < Len(Wf.steps)


\* ---------------------------------------------------------------------------
\* the steps whose dispatch ended in the generic except branch of try_make_job
ExceptionSteps == { t \in Steps : stepStatus[t] = "exception" }

StepOutputIds(t) == { Wf.steps[t].outputs[i].id : i \in 1..Len(Wf.steps[t].outputs) }

\* the workflow outputs every source of which is an output of step t
OutputsOf(t) ==
    { i \in 1..Len(Wf.outputs) :
        \A c \in 1..Len(Wf.outputs[i].source) : Wf.outputs[i].source[c] \in StepOutputIds(t) }

\* the last invocation of the final callback reported permanentFail, with
\* None for every workflow output that comes from step t
ReportedUnset(t) ==
    /\ EndedPermanentFail
    /\ LET cb == callbacks[Len(callbacks)]
       IN  \/ cb.wo.isNone
           \/ \A i \in OutputsOf(t) : cb.wo.obj[shortname(Wf.outputs[i].id)] = Null

\* C30: an exception other than WorkflowException raised while a step is
\* dispatched sets processStatus to permanentFail and marks the step completed
\* with none of its outputs written to the state map; the run then ends, and
\* the final callback reports permanentFail with the step's outputs unset.
C30_UnhandledException ==
    /\ [](\A t \in ExceptionSteps :
            /\ processStatus = "permanentFail"
            /\ completed[t]
            /\ \A id \in StepOutputIds(t) : state[id] = Unset /\ writes[id] = 0)
    /\ (ExceptionSteps # {}) ~> (ExceptionSteps # {} /\ \A t \in ExceptionSteps : ReportedUnset(t))
    /\ [][\A n \in 1..Len(callbacks) : n <= Len(callbacks') /\ callbacks'[n] = callbacks[n]]_vars
    /\ [](\A n \in 1..Len(callbacks) :
            ExceptionSteps # {} => callbacks[n].status = "permanentFail")

\* the step that asks for loadContents on an integer was dispatched, the other
\* steps ran under on_error=continue, and the run ended with permanentFail and
\* None for the output that comes from that step
C30_Witness ==
    /\ wfname = "Unhandled"
    /\ on_error = "continue"
    /\ 1 \in ExceptionSteps
    /\ ReportedUnset(1)
    /\ ~callbacks[Len(callbacks)].wo.isNone
    /\ stepStatus[3] = "success"


\* ---------------------------------------------------------------------------
\* the caller runs the job of a step that is not scattered
PlainCompletion ==
    /\ pc = "yielded"
    /\ inflight # NoJob
    /\ inflight.index = 0
    /\ inflight' = NoJob

\* what the completion of step s leaves, the job having reported the fields
\* have of its output out with the status status, and the present outputs
\* being bound with the status bound
CompletionEffect(s, out, have, status, bound) ==
    /\ \A o \in OutputParms(s) :
          IF shortname(o.id) \in have
          THEN state'[o.id] = WorkflowStateItem(o.type, out[shortname(o.id)], bound)
          ELSE /\ state[o.id] = Unset
               /\ state'[o.id] = Unset
               /\ stepStatus'[s] = "permanentFail"
               /\ processStatus' \notin {"success", "skipped"}
    /\ completed'[s]
    /\ iterable'[s] = "none"

\* C31 as stated: on a step's completion each declared output present in the
\* job's output is bound in the state map with the job's value and the job's
\* status; an absent one stays unset, turns the step's status to permanentFail
\* and the workflow's processStatus away from success; the step is completed
\* and its job-sequence handle released.
C31_BoundWithJobStatus ==
    [][PlainCompletion =>
          \E out \in { ToolOutput(inflight.step, inflight.input) },
             rep \in { reported'[inflight.step] } :
                CompletionEffect(inflight.step, out, rep.have, rep.status, rep.status)]_vars

\* C31: on a step's completion each declared output present in the job's
\* output is bound in the state map with the job's value, and with the job's
\* status if every declared output is present and permanentFail otherwise; an
\* absent one stays unset, turns the step's status to permanentFail and the
\* workflow's processStatus away from success; the step is completed and its
\* job-sequence handle released.  The outputs of a scattered step are bound,
\* when its collector calls back, with the collected arrays and the
\* collector's status.
C31_Bound ==
    /\ [][PlainCompletion =>
             \E out \in { ToolOutput(inflight.step, inflight.input) },
                rep \in { reported'[inflight.step] } :
                   CompletionEffect(inflight.step, out, rep.have, rep.status,
                                    IF rep.have = DOMAIN out THEN rep.status
                                    ELSE "permanentFail")]_vars
    /\ [][\A s \in Steps :
             (rcs'[s] # NoRC /\ rcs'[s].calls > (IF rcs[s] = NoRC THEN 0 ELSE rcs[s].calls)) =>
                /\ \A o \in OutputParms(s) :
                      state'[o.id] = WorkflowStateItem(o.type, ListV(rcs'[s].dest[o.id]),
                                                       rcs'[s].processStatus)
                /\ completed'[s]
                /\ iterable'[s] = "none"]_vars

\* a job that succeeded reported the first of its two outputs only: the first
\* is bound with permanentFail, the second is unset, the workflow has failed
C31_Witness ==
    /\ wfname = "TwoOutputs"
    /\ completed[1]
    /\ reported[1] = [status |-> "success", have |-> {<<"out">>}]
    /\ state[StepOut("s1")] = WorkflowStateItem(IntT, IntV(2), "permanentFail")
    /\ state[<<"main", "s1", "out2">>] = Unset
    /\ stepStatus[1] = "permanentFail"
    /\ processStatus = "permanentFail"
    /\ iterable[1] = "none"

\* a job reported both of its outputs with temporaryFail and both are bound
\* with it
C31_BothBound ==
    /\ wfname = "TwoOutputs"
    /\ pc \notin {"start", "raised"}
    /\ state[StepOut("s1")] = WorkflowStateItem(IntT, IntV(2), "temporaryFail")
    /\ state[<<"main", "s1", "out2">>] = WorkflowStateItem(IntT, IntV(3), "temporaryFail")
    /\ processStatus = "temporaryFail"


\* ---------------------------------------------------------------------------
\* C32: over any run and for every step, submitted goes from false to true at
\* most once and never back, and so does completed.
C32_NoRegress ==
    [][\A t \in Steps :
          /\ submitted[t] => submitted'[t]
          /\ completed[t] => completed'[t]]_vars

\* a step was submitted, then completed, and the run went on to its end; and
\* a step completed by an exception, which is never submitted
C32_Witness ==
    /\ pc = "done"
    /\ wfname = "Unhandled"
    /\ on_error = "continue"
    /\ completed[1] /\ ~submitted[1]
    /\ completed[2] /\ submitted[2]
    /\ completed[3] /\ submitted[3]


\* ---------------------------------------------------------------------------
\* C33: in every scatter collector the completed count never exceeds the
\* total number of shards, and the collector's output callback is invoked at
\* most once, shards skipped during construction and inner collectors that
\* finish during construction included.
C33_CollectorOnce ==
    \A path \in DOMAIN xrc :
        /\ xrc[path].completed <= xrc[path].total
        /\ xrc[path].calls <= 1

\* the run in which C33 fails: every shard of both inner collectors of a
\* nested cross product is skipped; each inner collector has called back
\* twice and the outer one counts four completions of two
C33_Witness ==
    /\ xmethod = "nested_crossproduct"
    /\ xkeys = <<KeyA, KeyB>>
    /\ Len(xjoborder[KeyA].items) = 2 /\ Len(xjoborder[KeyB].items) = 1
    /\ <<1>> \in DOMAIN xrc /\ <<2>> \in DOMAIN xrc
    /\ xrc[<<1>>].calls = 2 /\ xrc[<<2>>].calls = 2
    /\ xrc[<<>>].total = 2
    /\ xrc[<<>>].completed > 2
    /\ xrc[<<>>].calls >= 1

\* the same for the collector of a dot-product scatter in a workflow run
C33_DotProductOnce ==
    \A t \in Steps :
        rcs[t] # NoRC => (rcs[t].completed <= rcs[t].total /\ rcs[t].calls <= 1)

\* every shard of a dot-product scatter is skipped: the collector has called
\* back at the last skipped shard and again from setTotal
C33_DotProductTwice ==
    \E t \in Steps :
        /\ rcs[t] # NoRC
        /\ rcs[t].calls = 2
        /\ rcs[t].completed = rcs[t].total
        /\ rcs[t].total > 0


\* ---------------------------------------------------------------------------
\* C34: a scatter collector invokes its output callback only when every one of
\* its shards has reported; it never does while a shard is not yet constructed
\* or has not reported, so that no position of the delivered arrays belongs to
\* an unfinished shard.
C34_AllReported ==
    /\ \A c \in 1..Len(xcalls) : xcalls[c].done = AllLeaves
    /\ \A path \in DOMAIN xrc :
          xrc[path].calls >= 1 =>
             \A leaf \in AllLeaves :
                (Len(leaf) >= Len(path) /\ SubSeq(leaf, 1, Len(path)) = path) => leaf \in xdone

\* the run in which C34 fails: both shards of the first inner collector of a
\* two by two nested cross product are skipped, and the outer collector has
\* called back with the second inner collector not yet constructed
C34_Witness ==
    /\ xmethod = "nested_crossproduct"
    /\ xkeys = <<KeyA, KeyB>>
    /\ Len(xjoborder[KeyA].items) = 2 /\ Len(xjoborder[KeyB].items) = 2
    /\ Len(xcalls) >= 1
    /\ xcalls[1].done = { <<1, 1>>, <<1, 2>> }
    /\ xcalls[1].output[CrossOut] = ListV(<<ListV(<<Null, Null>>), Null>>)


\* ---------------------------------------------------------------------------
\* C35: a completed step is never dispatched again: at every boundary of the
\* driver's loops completed implies submitted, and the driver never makes a
\* new job sequence (try_make_job, which builds the input object) for a step
\* that is completed, whatever on_error is.
C35_NoRedispatch ==
    /\ [](pc \in {"while", "for"} => \A t \in Steps : completed[t] => submitted[t])
    /\ [][\A t \in Steps : (gens[t] # "fresh" /\ gens'[t] = "fresh") => ~completed[t]]_vars

\* the run in which C35 fails: the dispatch of s1 ended in the generic except
\* branch, and under on_error=continue the driver has made a new job sequence
\* for it on a later pass
C35_Witness ==
    /\ wfname = "Unhandled"
    /\ on_error = "continue"
    /\ pc = "iter"
    /\ order[cur] = 1
    /\ gens[1] = "fresh"
    /\ completed[1] /\ ~submitted[1]
    /\ stepStatus[1] = "exception"

\* under on_error=stop no job sequence is made for a completed step
C35_StopNoRedispatch ==
    [][on_error = "stop" =>
          \A t \in Steps : (gens[t] # "fresh" /\ gens'[t] = "fresh") => ~completed[t]]_vars


\* ---------------------------------------------------------------------------
\* C36: once the final output callback has been invoked (did_callback is
\* true) the driver yields no further job and no further None, and no entry of
\* the state map is written.
C36_QuietAfterCallback ==
    /\ [][did_callback =>
             /\ (pc' \in {"yielded", "stalled"} => pc' = pc)
             /\ inflight' \in {inflight, NoJob}
             /\ writes' = writes
             /\ \A id \in OutputIds : state'[id] = state[id]]_vars
    /\ [](\A n \in 1..Len(callbacks) : callbacks[n].writes = writes)

\* the run in which C36 fails: every shard of the only step's scatter is
\* skipped; the step's outputs were written once before the first invocation
\* of the final callback and once more after it
C36_Witness ==
    /\ wfname = "Gather"
    /\ did_callback
    /\ Len(callbacks) = 2
    /\ callbacks[1].writes[StepOut("s1")] = 1
    /\ writes[StepOut("s1")] = 2

\* the part of C36 about the job sequence: no job and no None is yielded once
\* did_callback is true
C36_NoYieldAfterCallback ==
    [][did_callback =>
          /\ (pc' \in {"yielded", "stalled"} => pc' = pc)
          /\ inflight' \in {inflight, NoJob}]_vars

====
